---- MODULE Spec2Model ----
(***************************************************************************)
(* ai-jup: the client side of the prompt request, PromptCellManager._callAI *)
(* of src/src/promptCell.ts, as a state machine: the request guard, the    *)
(* fetch, the read loop that turns the bytes of the event stream into      *)
(* lines and events, the rendering into the output cell, and the catch /   *)
(* finally exits.  The server and the network are the environment.         *)
(*                                                                         *)
(* Text is modelled as a sequence of symbols.  A symbol is one unit of the *)
(* wire that no read splits: a punctuation character, a word of a JSON     *)
(* string ("text", "a"), or one raw byte of the two-byte character E_ACUTE.*)
(***************************************************************************)
EXTENDS Integers, Sequences, FiniteSets, TLC

\* ------------------------------------------------------------------ bounds
\* Frames and lines the server emits on one stream.
MaxItems == 3

\* The server writes the next item when at most this many bytes of the
\* earlier ones are still unread, so one read returns at most the end of one
\* item and the whole of the next.
MaxInFlight == 3

\* Cells of a notebook: insertPromptCell and executePromptCell, which add
\* one, run while the notebook has fewer.
MaxCells == 3

\* Characters of a prompt text.
MaxPromptLen == 3

\* The most calls of _callAI made on a cell that has a request in flight.
MaxRefused == 2

\* The most executions of a command through the registry.
MaxInvocations == 3

\* ----------------------------------------------------------------- symbols
NL == "\n"
CR == "\r"
SP == " "
Q == "\""
\* The two bytes of one two-byte UTF-8 character, the character they decode
\* to, and the replacement character U+FFFD of a malformed sequence.
LEAD == "xC3"
CONT == "xA9"
E_ACUTE == "e'"
FFFD == "U+FFFD"

\* ----------------------------------------------------------- sequences
Drop(s, n) == SubSeq(s, n + 1, Len(s))

Take(s, n) == SubSeq(s, 1, n)

\* String.prototype.startsWith
StartsWith(s, p) == Len(s) >= Len(p) /\ Take(s, Len(p)) = p

\* The least index of x in s, 0 when s holds no x.
IndexOf(s, x) ==
    LET at == {i \in 1..Len(s) : s[i] = x}
    IN  IF at = {} THEN 0 ELSE CHOOSE i \in at : \A j \in at : i <= j

\* String.prototype.split('\n'): the pieces between the separators; a text
\* that ends in the separator has an empty last piece.
RECURSIVE Split(_, _)
Split(s, sep) ==
    LET i == IndexOf(s, sep)
    IN  IF i = 0 THEN << s >>
        ELSE << Take(s, i - 1) >> \o Split(Drop(s, i), sep)

\* ------------------------------------------------------------ TextDecoder
\* UTF-8 of a text: E_ACUTE is two bytes, every other symbol is its own byte.
RECURSIVE Utf8(_)
Utf8(t) ==
    IF t = <<>> THEN <<>>
    ELSE (IF Head(t) = E_ACUTE THEN << LEAD, CONT >> ELSE << Head(t) >>)
         \o Utf8(Tail(t))

\* What the decoder emits for byte i of the bytes b (an incomplete sequence
\* left by the last call, then the chunk): a character, or nothing (SKIP) for
\* a lead byte that its continuation completes or that ends the bytes. A
\* lead byte not followed by its continuation, and a continuation byte
\* without lead, are malformed: U+FFFD.
SKIP == "(none)"

DecodeAt(b, i) ==
    IF b[i] = LEAD
    THEN IF i = Len(b) \/ b[i + 1] = CONT THEN SKIP ELSE FFFD
    ELSE IF b[i] = CONT
    THEN IF i > 1 /\ b[i - 1] = LEAD THEN E_ACUTE ELSE FFFD
    ELSE b[i]

IsChar(x) == x # SKIP

DecodeBytes(b) == SelectSeq([i \in 1..Len(b) |-> DecodeAt(b, i)], IsChar)

EndsInLead(b) == b # <<>> /\ b[Len(b)] = LEAD

\* decoder.decode(value, { stream: true }): the text of the chunk, an
\* incomplete sequence at its end kept for the next call.
Decode(pending, value) ==
    LET b == pending \o value
    IN  [out |-> DecodeBytes(b),
         pending |-> IF EndsInLead(b) THEN << LEAD >> ELSE <<>>]

\* ------------------------------------------------------------- JS values
\* A JavaScript value: a string (s, its symbols), an object (m, its members
\* in order, each << key, value >>), true, false, null or undefined.
Str(s) == [t |-> "string", s |-> s, m |-> <<>>]

Obj(m) == [t |-> "object", s |-> <<>>, m |-> m]

True == [t |-> "true", s |-> <<>>, m |-> <<>>]

False == [t |-> "false", s |-> <<>>, m |-> <<>>]

Null == [t |-> "null", s |-> <<>>, m |-> <<>>]

Undefined == [t |-> "undefined", s |-> <<>>, m |-> <<>>]

\* The value of the last member of m named k (a later duplicate key wins).
RECURSIVE Lookup(_, _, _)
Lookup(m, k, i) ==
    IF i = 0 THEN Undefined
    ELSE IF m[i][1] = k THEN m[i][2]
    ELSE Lookup(m, k, i - 1)

\* v.k for a v that is neither null nor undefined: a primitive has no own
\* property of these names.
Prop(v, k) == IF v.t = "object" THEN Lookup(v.m, k, Len(v.m)) ELSE Undefined

\* The condition of an if: '' , false, null and undefined are falsy.
Truthy(v) ==
    CASE v.t = "string" -> v.s # <<>>
      [] v.t = "object" -> TRUE
      [] v.t = "true" -> TRUE
      [] OTHER -> FALSE

\* The string a value becomes in a concatenation or a template literal.
ToStr(v) ==
    CASE v.t = "string" -> v.s
      [] v.t = "object" -> << "[object Object]" >>
      [] OTHER -> << v.t >>

\* -------------------------------------------------------------- JSON.parse
IsWs(x) == x \in {SP, CR}

RECURSIVE SkipWs(_)
SkipWs(s) == IF s # <<>> /\ IsWs(Head(s)) THEN SkipWs(Tail(s)) ELSE s

ParseFail == [ok |-> FALSE, val |-> Undefined, rest |-> <<>>]

\* s follows an opening quote: the string ends at the next quote; a raw
\* control character inside it is a syntax error.
ParseString(s) ==
    LET i == IndexOf(s, Q)
    IN  IF i = 0 \/ IndexOf(Take(s, i - 1), CR) # 0 THEN ParseFail
        ELSE [ok |-> TRUE, val |-> Str(Take(s, i - 1)), rest |-> Drop(s, i)]

RECURSIVE ParseValue(_), ParseMembers(_, _)
ParseValue(s0) ==
    LET s == SkipWs(s0)
    IN  IF s = <<>> THEN ParseFail
        ELSE CASE Head(s) = Q -> ParseString(Tail(s))
               [] Head(s) = "{" ->
                    LET t == SkipWs(Tail(s))
                    IN  IF t # <<>> /\ Head(t) = "}"
                        THEN [ok |-> TRUE, val |-> Obj(<<>>), rest |-> Tail(t)]
                        ELSE ParseMembers(t, <<>>)
               [] Head(s) = "true" -> [ok |-> TRUE, val |-> True, rest |-> Tail(s)]
               [] Head(s) = "false" -> [ok |-> TRUE, val |-> False, rest |-> Tail(s)]
               [] Head(s) = "null" -> [ok |-> TRUE, val |-> Null, rest |-> Tail(s)]
               [] OTHER -> ParseFail

\* s follows '{' or ',': a member "key": value, then ',' and more, or '}'.
ParseMembers(s0, acc) ==
    LET s == SkipWs(s0)
    IN  IF s = <<>> \/ Head(s) # Q THEN ParseFail
        ELSE LET k == ParseString(Tail(s))
                 c == SkipWs(k.rest)
             IN  IF ~k.ok \/ c = <<>> \/ Head(c) # ":" THEN ParseFail
                 ELSE LET v == ParseValue(Tail(c))
                          e == SkipWs(v.rest)
                          m == Append(acc, << k.val.s, v.val >>)
                      IN  IF ~v.ok \/ e = <<>> THEN ParseFail
                          ELSE IF Head(e) = "}"
                          THEN [ok |-> TRUE, val |-> Obj(m), rest |-> Tail(e)]
                          ELSE IF Head(e) = ","
                          THEN ParseMembers(Tail(e), m)
                          ELSE ParseFail

\* JSON.parse(data): [ok, val]; not ok is the SyntaxError it throws. The whole
\* text must be one value, white space around it allowed.
JSONparse(data) ==
    LET r == ParseValue(data)
    IN  IF r.ok /\ SkipWs(r.rest) = <<>>
        THEN [ok |-> TRUE, val |-> r.val]
        ELSE [ok |-> FALSE, val |-> Undefined]

\* ---------------------------------------------------- the server's encoder
\* JSON text of a value (the server's serializer).
RECURSIVE Stringify(_), StringifyMembers(_, _)
Stringify(v) ==
    CASE v.t = "string" -> << Q >> \o v.s \o << Q >>
      [] v.t = "object" -> << "{" >> \o StringifyMembers(v.m, 1) \o << "}" >>
      [] OTHER -> << v.t >>

StringifyMembers(m, i) ==
    IF i > Len(m) THEN <<>>
    ELSE << Q >> \o m[i][1] \o << Q, ":" >> \o Stringify(m[i][2])
         \o (IF i < Len(m) THEN << "," >> ELSE <<>>)
         \o StringifyMembers(m, i + 1)

\* A StreamEvent is [tag, id, v]: text(v), tool_call(id, name v),
\* tool_input(v), tool_result(id, result v), error(v), done; tag "raw" is a
\* line v put on the wire as it is (not an event frame).
Event(tag, id, v) == [tag |-> tag, id |-> id, v |-> v]

\* The JSON object of an event's frame.
EventValue(e) ==
    CASE e.tag = "text" -> Obj(<< << << "text" >>, Str(e.v) >> >>)
      [] e.tag = "error" -> Obj(<< << << "error" >>, Str(e.v) >> >>)
      [] e.tag = "done" -> Obj(<< << << "done" >>, True >> >>)
      [] e.tag = "tool_input" -> Obj(<< << << "tool_input" >>, Str(e.v) >> >>)
      [] e.tag = "tool_call" ->
            Obj(<< << << "tool_call" >>,
                      Obj(<< << << "id" >>, Str(e.id) >>,
                             << << "name" >>, Str(e.v) >> >>) >> >>)
      [] e.tag = "tool_result" ->
            Obj(<< << << "tool_result" >>,
                      Obj(<< << << "id" >>, Str(e.id) >>,
                             << << "result" >>, Str(e.v) >> >>) >> >>)

\* The event prefix of a line.
Prefix == << "data:", SP >>

\* The bytes of one item: an event is the frame `data: <json>` and the blank
\* line that ends it; a raw line is the line and its newline; a partial line
\* is the text without a newline.
Encode(e) ==
    IF e.tag = "raw" THEN Utf8(e.v \o << NL >>)
    ELSE IF e.tag = "partial" THEN Utf8(e.v)
    ELSE Utf8(Prefix \o Stringify(EventValue(e)) \o << NL, NL >>)

\* ------------------------------------------------ the consumer's loop body
\* currentToolCall: null (open = FALSE) or { name, id, input }.
NoToolCall == [open |-> FALSE, name |-> Undefined, id |-> Undefined, input |-> <<>>]

\* The texts the loop appends to outputText.
ErrorNotice(msg) == << NL, NL, "**Error:**", SP >> \o msg \o << NL >>

\* A done branch that adds nothing.
NoNotice == <<>>

ToolErrorNotice == << NL, "**Tool Error:**", SP, "Tools require an active kernel.", NL >>

CallingNotice(name) == << NL, NL, "*Calling tool: " >> \o name \o << "...*", NL >>

\* renderToolResult(result) of ./toolResultRenderer.
RenderToolResult(result) == << NL, "[tool result: " >> \o ToStr(result) \o << "]", NL >>

\* kernelId is panel.sessionContext.session?.kernel?.id.
KernelIds == {"undefined", "k1"}

\* A tool_input branch that keeps only the last fragment.
ReplaceInput(tc, fragment) == [tc EXCEPT !.input = fragment]

\* currentToolCall.input += event.tool_input
AppendInput(tc, fragment) == [tc EXCEPT !.input = tc.input \o fragment]

\* currentToolCall = { name: event.tool_call.name, id: event.tool_call.id, input: '' }
OpenToolCall(tc) ==
    [open |-> TRUE, name |-> Prop(tc, << "name" >>), id |-> Prop(tc, << "id" >>),
     input |-> <<>>]

\* A rendering that puts the newest piece first.
RenderFirst(c, piece) ==
    [c EXCEPT !.outputText = piece \o c.outputText,
              !.source = piece \o c.outputText]

\* outputText += piece; outputCell.model.sharedModel.setSource(outputText)
Render(c, piece) ==
    [c EXCEPT !.outputText = c.outputText \o piece,
              !.source = c.outputText \o piece]

\* The branch taken for a parsed event, as the loop's log of recognised events.
Recognise(c, tag, val) ==
    [c EXCEPT !.eventLog = Append(c.eventLog, [tag |-> tag, val |-> val])]

\* A chain that ends in an else reporting the event it does not know.
RejectUnknown(c) ==
    [c EXCEPT !.outputText = c.outputText \o << "Unknown event" >>,
              !.source = c.outputText \o << "Unknown event" >>]

\* The chain has no final else: an event none of its tests accepts changes
\* nothing.
IgnoreUnknown(c) == c

\* The if / else-if chain on a parsed event.  c is the loop's state:
\* outputText, buffer, pending, currentToolCall, source (the cell's), and the
\* logs.  Reading a property of null throws, and the catch ignores it.
HandleEvent(c, event, kernelId) ==
    IF event.t \in {"null", "undefined"} THEN c
    ELSE IF Truthy(Prop(event, << "text" >>))
    THEN Render(Recognise(c, "text", Prop(event, << "text" >>)),
                ToStr(Prop(event, << "text" >>)))
    ELSE IF Truthy(Prop(event, << "error" >>))
    THEN Render(Recognise(c, "error", Prop(event, << "error" >>)),
                ErrorNotice(ToStr(Prop(event, << "error" >>))))
    ELSE IF Truthy(Prop(event, << "done" >>))
    THEN IF c.currentToolCall.open /\ kernelId = "undefined"
         THEN Render(Recognise(c, "done", Prop(event, << "done" >>)), ToolErrorNotice)
         ELSE Recognise(c, "done", Prop(event, << "done" >>))
    ELSE IF Truthy(Prop(event, << "tool_call" >>))
    THEN LET tc == Prop(event, << "tool_call" >>)
             opened == [Recognise(c, "tool_call", tc) EXCEPT
                           !.currentToolCall = OpenToolCall(tc)]
         IN  Render(opened, CallingNotice(ToStr(Prop(tc, << "name" >>))))
    ELSE IF Truthy(Prop(event, << "tool_input" >>)) /\ c.currentToolCall.open
    THEN [Recognise(c, "tool_input", Prop(event, << "tool_input" >>)) EXCEPT
             !.currentToolCall =
                 AppendInput(@, ToStr(Prop(event, << "tool_input" >>)))]
    ELSE IF Truthy(Prop(event, << "tool_result" >>))
    THEN LET tr == Prop(event, << "tool_result" >>)
             shown == Render(Recognise(c, "tool_result", tr),
                             RenderToolResult(Prop(tr, << "result" >>)))
         IN  [shown EXCEPT !.currentToolCall = NoToolCall]
    ELSE IgnoreUnknown(c)

\* A strip that removes the last character of the line whatever it is.
StripLast(rawLine) == Take(rawLine, Len(rawLine) - 1)

\* rawLine.replace(/\r$/, '')
StripCR(rawLine) ==
    IF rawLine # <<>> /\ rawLine[Len(rawLine)] = CR
    THEN Take(rawLine, Len(rawLine) - 1)
    ELSE rawLine

\* A test that finds the prefix anywhere in the line.
HasPrefixAnywhere(line) ==
    \E i \in 1..(Len(line) - Len(Prefix) + 1) :
        SubSeq(line, i, i + Len(Prefix) - 1) = Prefix

\* line.startsWith('data: ')
IsDataLine(line) == StartsWith(line, Prefix)

\* A catch block that reports the invalid JSON in the output.
ReportInvalid(c) ==
    [c EXCEPT !.outputText = c.outputText \o << "Invalid JSON" >>,
              !.source = c.outputText \o << "Invalid JSON" >>]

\* catch { /* Ignore invalid JSON */ }
IgnoreInvalid(c) == c

\* One turn of `for (const rawLine of lines)`.
ProcessLine(c, rawLine, kernelId) ==
    LET line == StripCR(rawLine)
        seen == [c EXCEPT !.linesLog = Append(c.linesLog, rawLine)]
    IN  IF IsDataLine(line)
        THEN LET p == JSONparse(Drop(line, Len(Prefix)))
             IN  IF p.ok THEN HandleEvent(seen, p.val, kernelId)
                 ELSE IgnoreInvalid(seen)
        ELSE seen

RECURSIVE ProcessLines(_, _, _)
ProcessLines(c, lines, kernelId) ==
    IF lines = <<>> THEN c
    ELSE ProcessLines(ProcessLine(c, Head(lines), kernelId), Tail(lines), kernelId)

\* A loop that forgets the incomplete line at the end of a read.
DropIncomplete(lines) == <<>>

\* buffer = lines.pop() || '': the text after the last newline.
KeepIncomplete(lines) == lines[Len(lines)]

\* A loop body that processes the incomplete last line with the others.
ConsumeAllLines(c, value, kernelId) ==
    LET d == Decode(c.pending, value)
        lines == Split(c.buffer \o d.out, NL)
        kept == [c EXCEPT !.pending = d.pending, !.buffer = <<>>]
    IN  ProcessLines(kept, lines, kernelId)

\* The body of the while loop for one chunk: decode, split, keep the
\* incomplete last line, process the complete ones.
ConsumeChunk(c, value, kernelId) ==
    LET d == Decode(c.pending, value)
        lines == Split(c.buffer \o d.out, NL)
        kept == [c EXCEPT !.pending = d.pending, !.buffer = KeepIncomplete(lines)]
    IN  ProcessLines(kept, Take(lines, Len(lines) - 1), kernelId)

\* The loop's state when the stream is opened.
LoopInit ==
    [outputText |-> <<>>, buffer |-> <<>>, pending |-> <<>>,
     currentToolCall |-> NoToolCall, source |-> << "Generating response..." >>,
     linesLog |-> <<>>, eventLog |-> <<>>]

\* The hard cap the spec puts on a context bundle, in items (code cells,
\* variables, functions), scaled to the notebooks tried here. The code has no
\* cap: a notebook with more items than any cap exceeds it.
ContextCap == 1

\* ------------------------------------------------------------ promptParser
\* A prompt is a sequence of characters. The classes of the patterns:
\* [a-zA-Z], [0-9], \w and \s.
Letters == {"a", "b", "f", "g", "x", "y"}

Digits == {"2", "5"}

IsWord(ch) == ch \in Letters \cup Digits \cup {"_"}

IsIdentStart(ch) == ch \in Letters \cup {"_"}

IsSpace(ch) == ch \in {SP, NL, CR, "\t"}

\* The length of the longest run of \w characters of text from index i.
RECURSIVE WordRun(_, _)
WordRun(text, i) ==
    IF i <= Len(text) /\ IsWord(text[i]) THEN 1 + WordRun(text, i + 1) ELSE 0

\* A match of sigil([a-zA-Z_][a-zA-Z0-9_]*) at index i; the pattern of the
\* functions has the lookbehind (?<!\w).
RefAt(text, i, sigil, lookbehind) ==
    /\ i < Len(text)
    /\ text[i] = sigil
    /\ IsIdentStart(text[i + 1])
    /\ lookbehind => (i = 1 \/ ~IsWord(text[i - 1]))

\* A push that does not look for the name in the array.
PushAlways(names, name) == Append(names, name)

\* array.push(name) unless array.includes(name)
PushNew(names, name) ==
    IF \E k \in 1..Len(names) : names[k] = name THEN names ELSE Append(names, name)

\* The loop `while ((match = pattern.exec(text)) !== null)` from index i: the
\* names matched, each once, in the order of their first match.
RECURSIVE References(_, _, _, _, _)
References(text, i, sigil, lookbehind, found) ==
    IF i > Len(text) THEN found
    ELSE IF RefAt(text, i, sigil, lookbehind)
    THEN LET n == WordRun(text, i + 1)
         IN  References(text, i + 1 + n, sigil, lookbehind,
                        PushNew(found, SubSeq(text, i + 1, i + n)))
    ELSE References(text, i + 1, sigil, lookbehind, found)

\* parsePrompt(text)
parsePrompt(text) ==
    [variables |-> References(text, 1, "$", FALSE, <<>>),
     functions |-> References(text, 1, "&", TRUE, <<>>)]

\* \b between index i and i + 1 of text: exactly one side is a \w character.
WordBoundary(text, i) ==
    (i >= 1 /\ i <= Len(text) /\ IsWord(text[i]))
        # (i + 1 <= Len(text) /\ IsWord(text[i + 1]))

\* A match of the pattern \$name\b at index i.
VarAt(text, i, name) ==
    /\ i + Len(name) <= Len(text)
    /\ text[i] = "$"
    /\ SubSeq(text, i + 1, i + Len(name)) = name
    /\ WordBoundary(text, i + Len(name))

\* result.replace(pattern, () => value) from index i: every match replaced
\* by the value as it is; the text put in is not scanned again.
RECURSIVE ReplaceVar(_, _, _, _)
ReplaceVar(text, i, name, value) ==
    IF i > Len(text) THEN <<>>
    ELSE IF VarAt(text, i, name)
    THEN value \o ReplaceVar(text, i + 1 + Len(name), name, value)
    ELSE << text[i] >> \o ReplaceVar(text, i + 1, name, value)

\* substituteVariables(text, variableValues): variableValues is the
\* sequence Object.entries gives, << name, value >> in insertion order; each
\* entry's replacement works on the result of the one before.
RECURSIVE substituteVariables(_, _)
substituteVariables(text, variableValues) ==
    IF variableValues = <<>> THEN text
    ELSE substituteVariables(
             ReplaceVar(text, 1, variableValues[1][1], variableValues[1][2]),
             Tail(variableValues))

\* .replace(/(?<!\w)&([a-zA-Z_][a-zA-Z0-9_]*)/g, '') from index i
RECURSIVE RemoveRefs(_, _)
RemoveRefs(text, i) ==
    IF i > Len(text) THEN <<>>
    ELSE IF RefAt(text, i, "&", TRUE)
    THEN RemoveRefs(text, i + 1 + WordRun(text, i + 1))
    ELSE << text[i] >> \o RemoveRefs(text, i + 1)

\* .replace(/\s+/g, ' ') from index i
RECURSIVE CollapseSpaces(_, _)
CollapseSpaces(text, i) ==
    IF i > Len(text) THEN <<>>
    ELSE IF IsSpace(text[i])
    THEN IF i > 1 /\ IsSpace(text[i - 1]) THEN CollapseSpaces(text, i + 1)
         ELSE << SP >> \o CollapseSpaces(text, i + 1)
    ELSE << text[i] >> \o CollapseSpaces(text, i + 1)

\* String.prototype.trim
RECURSIVE Trim(_)
Trim(text) ==
    IF text = <<>> THEN text
    ELSE IF IsSpace(Head(text)) THEN Trim(Tail(text))
    ELSE IF IsSpace(text[Len(text)]) THEN Trim(Take(text, Len(text) - 1))
    ELSE text

\* A removeFunctionReferences that only normalises the whitespace.
KeepFunctionReferences(text) == Trim(CollapseSpaces(text, 1))

\* removeFunctionReferences(text)
removeFunctionReferences(text) == Trim(CollapseSpaces(RemoveRefs(text, 1), 1))

\* processPrompt(text, variableValues)
processPrompt(text, variableValues) ==
    Trim(removeFunctionReferences(substituteVariables(text, variableValues)))

\* ------------------------------------------------------------------ state
VARIABLES
    pc,               \* where _callAI is: idle, fetch, json, read, exit
    kernelId,         \* the kernelId argument
    cell,             \* outputCell: isDisposed, source, rendered, metadata, button
    listener,         \* abortOnDispose is connected to outputCell.disposed
    aborted,          \* controller.signal.aborted
    response,         \* the response fetch resolved with
    outputText,       \* let outputText
    buffer,           \* let buffer
    pending,          \* the decoder's incomplete byte sequence
    currentToolCall,  \* let currentToolCall
    sent,             \* the items the server has put on the stream, in order
    wire,             \* the bytes sent and not yet decoded by the loop
    closed,           \* the server has closed the connection
    delivered,        \* the bytes the loop has decoded, in order
    linesLog,         \* the raw lines the for loop has iterated over
    eventLog,         \* the events the if chain has recognised
    exitPath,         \* how _callAI left: finalized, disposed, abort, error
    calls,            \* the calls of _callAI on the cell: in flight, and refused
    notebook,         \* panel.content: the model's cells, the widgets, the active cell
    exec,             \* executePromptCell between its awaits, and what it passed on
    runs,             \* the calls of executePromptCell that overlap, each with its own locals
    kernel,           \* the kernel's namespace, as the connector answers from it
    app               \* the application: its commands and the tracker's current widget

\* The variables of _callAI and of its stream.
callVars ==
    << pc, kernelId, cell, listener, aborted, response, outputText, buffer,
       pending, currentToolCall, sent, wire, closed, delivered, linesLog,
       eventLog, exitPath, calls >>

\* The variables of the notebook and of executePromptCell.
nbVars == << notebook, exec, runs, kernel >>

vars == << callVars, nbVars, app >>

\* The loop's variables as one record, and their next values from one.
Loop ==
    [outputText |-> outputText, buffer |-> buffer, pending |-> pending,
     currentToolCall |-> currentToolCall, source |-> cell.source,
     linesLog |-> linesLog, eventLog |-> eventLog]

SetLoop(r) ==
    /\ outputText' = r.outputText
    /\ buffer' = r.buffer
    /\ pending' = r.pending
    /\ currentToolCall' = r.currentToolCall
    /\ linesLog' = r.linesLog
    /\ eventLog' = r.eventLog

loopVars == << outputText, buffer, pending, currentToolCall, linesLog, eventLog >>

netVars == << sent, wire, closed, delivered >>

\* The body of a non-OK response as response.json() gives it: not JSON (the
\* promise rejects), or a JSON value.
NotJson == [json |-> FALSE, val |-> Undefined]

Json(v) == [json |-> TRUE, val |-> v]

ErrorBodies ==
    { Json(Obj(<< << << "error" >>, Str(<< "Invalid request" >>) >> >>)),
      Json(Obj(<< << << "error" >>, Str(<<>>) >> >>)),
      Json(Obj(<< << << "message" >>, Str(<< "Forbidden" >>) >> >>)),
      Json(Null),
      NotJson }

\* What fetch can resolve with: a stream, a response without body, or a
\* non-OK response with one of the bodies.
Responses ==
    { [ok |-> TRUE, body |-> TRUE, errorBody |-> NotJson],
      [ok |-> TRUE, body |-> FALSE, errorBody |-> NotJson] }
    \cup { [ok |-> FALSE, body |-> TRUE, errorBody |-> b] : b \in ErrorBodies }

NoResponse == [ok |-> FALSE, body |-> FALSE, errorBody |-> NotJson]

\* `HTTP ${response.status}: ${response.statusText}`
HttpStatus == << "HTTP status: statusText" >>

\* An error message that is always the HTTP status.
StatusOnly(resp) == HttpStatus

\* The message of the error thrown for a non-OK response: errorBody.error
\* when if (errorBody.error) holds; the HTTP status when it does not, when
\* the body is not JSON, and when reading .error of null throws.
ErrorMessage(resp) ==
    IF /\ resp.errorBody.json
       /\ resp.errorBody.val.t \notin {"null", "undefined"}
       /\ Truthy(Prop(resp.errorBody.val, << "error" >>))
    THEN ToStr(Prop(resp.errorBody.val, << "error" >>))
    ELSE HttpStatus

\* A guard that never finds a request.
NoExistingRequest(c) == FALSE

\* const existingRequest = outputCell.model.getMetadata(ACTIVE_REQUEST_KEY)
ExistingRequest(c) == c.activeRequest

\* The source the catch block sets: the message and String(error).
ErrorSource(err) ==
    << "**Error:** Failed to connect to AI backend.", NL, NL >> \o err

\* A catch block that writes the message whatever the cell's state.
CatchErrorAlways(c, err) == [c EXCEPT !.source = ErrorSource(err), !.rendered = TRUE]

\* A catch block that does not render the cell.
CatchErrorUnrendered(c, err) ==
    IF c.isDisposed THEN c ELSE [c EXCEPT !.source = ErrorSource(err)]

\* The catch block for an error that is not an AbortError.
CatchError(c, err) ==
    IF c.isDisposed THEN c
    ELSE [c EXCEPT !.source = ErrorSource(err), !.rendered = TRUE]

\* A finalization that writes whatever the cell's state.
FinalizeAlways(c, content) ==
    [c EXCEPT !.rendered = TRUE, !.hasContent = TRUE, !.content = content,
              !.buttons = IF @ = 0 THEN 1 ELSE @]

\* A finalization that stores the content and leaves the cell unrendered.
FinalizeUnrendered(c, content) ==
    IF c.isDisposed THEN c
    ELSE [c EXCEPT !.hasContent = TRUE, !.content = content,
                   !.buttons = IF @ = 0 THEN 1 ELSE @]

\* After the loop: outputCell.rendered = true and _addConvertButton, which
\* stores the content and adds the button container unless one exists.
Finalize(c, content) ==
    IF c.isDisposed THEN c
    ELSE [c EXCEPT !.rendered = TRUE,
                   !.hasContent = TRUE,
                   !.content = content,
                   !.buttons = IF @ = 0 THEN 1 ELSE @]

\* A finally block that leaves the flag.
FinallyKeep(c) == c

\* The finally block: the listener is disconnected (by Exit) and the active
\* request flag removed from a cell that is alive.
Finally(c) == IF c.isDisposed THEN c ELSE [c EXCEPT !.activeRequest = FALSE]

\* _callAI returns through finally.
Exit(c, path) ==
    /\ pc' = "exit"
    /\ cell' = Finally(c)
    /\ listener' = FALSE
    /\ exitPath' = path
    /\ calls' = [calls EXCEPT !.inFlight = @ - 1]

\* ---------------------------------------------------------------- notebook
PROMPT_CELL_CLASS == "ai-jup-prompt-cell"

PROMPT_OUTPUT_CLASS == "ai-jup-prompt-output"

\* The model name insertPromptCell stores and executePromptCell falls back to.
DefaultModel == "claude-sonnet-4-20250514"

\* The source insertPromptCell gives the cell: '**AI Prompt:** '.
PromptSource == << "**AI Prompt:**", SP >>

\* The source _insertOutputCell gives the cell.
LoadingSource == LoopInit.source

\* array.splice(i, 0, x) and array.splice(i, 1), i counted from 0.
InsertAt(s, i, x) == Take(s, i) \o << x >> \o Drop(s, i)

RemoveAt(s, i) == Take(s, i) \o Drop(s, i + 1)

\* A cell model: its id, cell_type, source, and the metadata ai_jup
\* (isPromptCell, model).  The cell insertBelow creates is an empty code cell.
NewCell(uid) ==
    [uid |-> uid, type |-> "code", source |-> <<>>,
     isPromptCell |-> FALSE, model |-> "undefined"]

\* What indexing past an array's end and a failed lookup give.
NoCell == NewCell(0)

\* _isPromptCell(model)
IsPromptCell(c) == c.isPromptCell

\* notebook.widgets: the cells that have a widget, in the model's order.
Widgets(nb) ==
    LET Rendered(c) == c.uid \in nb.rendered
    IN  SelectSeq(nb.cells, Rendered)

\* notebook.widgets[i]
WidgetAt(nb, i) ==
    IF i >= 0 /\ i < Len(Widgets(nb)) THEN Widgets(nb)[i + 1] ELSE NoCell

\* notebook.activeCell
ActiveCell(nb) == WidgetAt(nb, nb.activeCellIndex)

\* notebook.widgets.indexOf(cell)
WidgetIndexOf(nb, uid) ==
    LET w == Widgets(nb)
        at == {i \in 1..Len(w) : w[i].uid = uid}
    IN  IF at = {} THEN -1 ELSE (CHOOSE i \in at : TRUE) - 1

\* cell.hasClass(name) and cell.addClass(name)
HasClass(nb, uid, name) == << uid, name >> \in nb.classes

AddClass(nb, uid, name) == [nb EXCEPT !.classes = @ \cup {<< uid, name >>}]

\* The setter of notebook.activeCellIndex keeps the index within the widgets.
ClampIndex(nb, i) ==
    IF i < 0 \/ Widgets(nb) = <<>> THEN 0
    ELSE IF i > Len(Widgets(nb)) - 1 THEN Len(Widgets(nb)) - 1
    ELSE i

\* sharedModel.insertCell(i, cellData): the model gets the cell at position
\* i and the notebook creates its widget; an active cell at or after i moves
\* down.  cells.changed fires, and onCellsChanged asks for a frame.
InsertCell(nb, i, cellData) ==
    LET at == IF i > Len(nb.cells) THEN Len(nb.cells) ELSE i
    IN  [nb EXCEPT !.cells = InsertAt(@, at, cellData),
                   !.rendered = @ \cup {cellData.uid},
                   !.activeCellIndex = IF at <= @ THEN @ + 1 ELSE @,
                   !.styleScheduled = "cells.changed" \in nb.listeners]

\* sharedModel.deleteCell(i): the cell at position i leaves the model and
\* its widget, with its classes, is disposed; an active cell at or after i
\* moves up.
DeleteCell(nb, i) ==
    IF i < 0 \/ i >= Len(nb.cells) THEN nb
    ELSE LET uid == nb.cells[i + 1].uid
         IN  [nb EXCEPT !.cells = RemoveAt(@, i),
                        !.rendered = @ \ {uid},
                        !.classes = {c \in @ : c[1] # uid},
                        !.activeCellIndex = IF i <= @ /\ @ > 0 THEN @ - 1 ELSE @,
                        !.styleScheduled = "cells.changed" \in nb.listeners]

\* stylePromptCells of setupNotebook: for every index i of the model whose
\* cell is a prompt cell, the widget notebook.widgets[i], when there is one,
\* gets the class.
stylePromptCells(nb) ==
    LET cellCount == Len(nb.cells)
        styled == { WidgetAt(nb, i).uid :
                      i \in { j \in 0..(cellCount - 1) :
                                 /\ IsPromptCell(nb.cells[j + 1])
                                 /\ j < Len(Widgets(nb)) } }
    IN  IF nb.isDisposed THEN nb
        ELSE [nb EXCEPT !.classes = @ \cup { << uid, PROMPT_CELL_CLASS >> : uid \in styled }]

\* notebook.activeCellChanged fires: onActiveCellChanged, when connected.
OnActiveCellChanged(nb) ==
    IF "activeCellChanged" \in nb.listeners THEN stylePromptCells(nb) ELSE nb

\* An insertBelow that puts the new cell above the active cell.
InsertAbove(nb) ==
    LET newIndex == nb.activeCellIndex
        added == InsertCell(nb, newIndex, NewCell(nb.nextUid))
    IN  [added EXCEPT !.activeCellIndex = ClampIndex(added, newIndex),
                      !.nextUid = @ + 1]

\* NotebookActions.insertBelow(notebook): a new code cell below the active
\* cell, or first when there is none, which becomes the active cell.
InsertBelow(nb) ==
    LET newIndex == IF ActiveCell(nb) = NoCell THEN 0 ELSE nb.activeCellIndex + 1
        added == InsertCell(nb, newIndex, NewCell(nb.nextUid))
    IN  [added EXCEPT !.activeCellIndex = ClampIndex(added, newIndex),
                      !.nextUid = @ + 1]

\* A setMetadata that stores nothing.
SetNoMetadata(nb, uid) == nb

\* model.setMetadata(PROMPT_METADATA_KEY, { isPromptCell: true, model })
SetPromptMetadata(nb, uid) ==
    [nb EXCEPT !.cells =
        [k \in 1..Len(@) |->
            IF @[k].uid = uid
            THEN [@[k] EXCEPT !.isPromptCell = TRUE, !.model = DefaultModel]
            ELSE @[k]]]

\* model.toJSON() of the cell uid with cell_type and source replaced.
CellData(nb, uid, type, source) ==
    LET at == CHOOSE k \in 1..Len(nb.cells) : nb.cells[k].uid = uid
    IN  [nb.cells[at] EXCEPT !.type = type, !.source = source]

\* A lookup that finds a connector for every panel.
AnyConnector(nb) == TRUE

\* this._connectors.get(panel.id), as the test of the connector found
HasConnector(nb) == nb.connector

\* insertPromptCell(panel).  Reading .model of a widget that does not exist
\* throws, which leaves the notebook as insertBelow made it.
insertPromptCell(nb) ==
    LET below == InsertBelow(nb)
        activeIndex == below.activeCellIndex
        widget == WidgetAt(below, activeIndex)
    IN  IF widget = NoCell THEN below
        ELSE LET marked == SetPromptMetadata(below, widget.uid)
                 cellData == CellData(marked, widget.uid, "markdown", PromptSource)
                 swapped == InsertCell(DeleteCell(marked, activeIndex),
                                       activeIndex, cellData)
                 newCell == WidgetAt(swapped, activeIndex)
                 styled == AddClass(swapped, newCell.uid, PROMPT_CELL_CLASS)
             IN  [styled EXCEPT !.activeCellIndex = ClampIndex(styled, activeIndex),
                                !.mode = "edit",
                                !.inserts = @ + 1]

\* An _insertOutputCell that takes the prompt cell's place for the output.
InsertOutputIndexAtPrompt(insertAfterIndex) == insertAfterIndex

\* const outputIndex = insertAfterIndex + 1
InsertOutputIndex(insertAfterIndex) == insertAfterIndex + 1

\* A loop that does not look at the cells after the prompt cell.
NoOutputRun(nb, i) == i

\* The loop of _insertOutputCell: the index of the last widget of the run of
\* output cells that follows index i.
RECURSIVE LastOutputAfter(_, _)
LastOutputAfter(nb, i) ==
    IF i + 1 < Len(Widgets(nb))
       /\ HasClass(nb, WidgetAt(nb, i + 1).uid, PROMPT_OUTPUT_CLASS)
    THEN LastOutputAfter(nb, i + 1)
    ELSE i

\* _insertOutputCell(panel, promptCell): [ok, nb, uid]; not ok is the
\* TypeError of reading .model of a widget that does not exist.
insertOutputCell(nb, promptUid) ==
    LET promptIndex == WidgetIndexOf(nb, promptUid)
        insertAfterIndex == LastOutputAfter(nb, promptIndex)
        below == InsertBelow([nb EXCEPT !.activeCellIndex = ClampIndex(nb, insertAfterIndex)])
        outputIndex == InsertOutputIndex(insertAfterIndex)
        outputCell == WidgetAt(below, outputIndex)
    IN  IF outputCell = NoCell THEN [ok |-> FALSE, nb |-> below, uid |-> 0]
        ELSE LET cellData == CellData(below, outputCell.uid, "markdown", LoadingSource)
                 swapped == InsertCell(DeleteCell(below, outputIndex), outputIndex, cellData)
                 newOutputCell == WidgetAt(swapped, outputIndex)
             IN  [ok |-> TRUE,
                  nb |-> AddClass(swapped, newOutputCell.uid, PROMPT_OUTPUT_CLASS),
                  uid |-> newOutputCell.uid]

\* promptText.replace(/^\*\*AI Prompt:\*\*\s*/i, '')
RECURSIVE DropSpaces(_)
DropSpaces(text) ==
    IF text # <<>> /\ IsSpace(Head(text)) THEN DropSpaces(Tail(text)) ELSE text

PrefixMarkers == {"**AI Prompt:**", "**ai prompt:**"}

StripPromptPrefix(promptText) ==
    IF promptText # <<>> /\ Head(promptText) \in PrefixMarkers
    THEN DropSpaces(Tail(promptText))
    ELSE promptText

\* precedingCode.join('\n\n')
RECURSIVE Join(_)
Join(parts) ==
    IF parts = <<>> THEN <<>>
    ELSE IF Len(parts) = 1 THEN parts[1]
    ELSE parts[1] \o << NL, NL >> \o Join(Tail(parts))

\* The loop of _gatherContext over notebook.widgets[0 .. activeIndex - 1]:
\* [ok, code]; not ok is the TypeError of a widget that does not exist.
PrecedingCode(nb) ==
    LET activeIndex == nb.activeCellIndex
        IsCode(c) == c.type = "code"
        before == [i \in 1..activeIndex |-> WidgetAt(nb, i - 1)]
    IN  IF \E i \in 1..activeIndex : before[i] = NoCell
        THEN [ok |-> FALSE, code |-> <<>>]
        ELSE LET code == SelectSeq(before, IsCode)
             IN  [ok |-> TRUE, code |-> [i \in 1..Len(code) |-> code[i].source]]

\* connector.getVariable(name) and connector.getFunction(name) of
\* ./kernelConnector: the info of a name the kernel defines, else null.
NoInfo == << "null" >>

GetVariable(k, name) ==
    IF \E v \in k.variables : v[1] = name
    THEN (CHOOSE v \in k.variables : v[1] = name)[2]
    ELSE NoInfo

GetFunction(k, name) == IF name \in k.functions THEN name ELSE NoInfo

\* executePromptCell is not running and has passed nothing on.
NoRequest ==
    [prompt |-> <<>>, model |-> "undefined", kernel_id |-> "undefined",
     preceding_code |-> <<>>, variables |-> <<>>, functions |-> <<>>]

NoExecution ==
    [pc |-> "idle", promptUid |-> 0, model |-> "undefined", cleanPrompt |-> <<>>,
     todo |-> <<>>, precedingCode |-> <<>>, variables |-> <<>>, functions |-> <<>>,
     outputUid |-> 0, request |-> NoRequest, result |-> <<>>]

\* The rest of executePromptCell once _gatherContext has resolved: the
\* variables' reprs, processPrompt, the output cell and the call of _callAI,
\* whose arguments are the request.  [nb, exec]
FinishExecution(nb, ex, kid) ==
    LET variableValues == ex.variables
        processedPrompt == processPrompt(ex.cleanPrompt, variableValues)
        out == insertOutputCell(nb, ex.promptUid)
    IN  IF ~out.ok
        THEN [nb |-> OnActiveCellChanged(out.nb), exec |-> [ex EXCEPT !.pc = "rejected"]]
        ELSE [nb |-> OnActiveCellChanged(out.nb),
              exec |-> [ex EXCEPT
                  !.pc = "called",
                  !.outputUid = out.uid,
                  !.request =
                      [prompt |-> processedPrompt, model |-> ex.model,
                       kernel_id |-> kid,
                       preceding_code |-> Join(ex.precedingCode),
                       variables |-> ex.variables,
                       functions |-> ex.functions]]]

\* _gatherContext goes on to the next name it has to ask the connector for,
\* the variables first, or resolves.
AfterResolve(nb, ex, parsedFunctions, kid) ==
    IF ex.todo # <<>> THEN [nb |-> nb, exec |-> ex]
    ELSE IF ex.pc = "variables" /\ parsedFunctions # <<>>
    THEN [nb |-> nb, exec |-> [ex EXCEPT !.pc = "functions", !.todo = parsedFunctions]]
    ELSE FinishExecution(nb, ex, kid)

\* The ids the plugin registers its commands under.
insertPromptCommand == "ai-jup:insert-prompt-cell"

runPromptCommand == "ai-jup:run-prompt"

\* The application before the plugin is activated: no command of the plugin,
\* and no notebook is the current widget.  log is the record of the
\* executions of the plugin's commands: the id and the current widget.
NoApp ==
    [activated |-> FALSE, commands |-> {}, currentWidget |-> "null", log |-> <<>>]

\* activate(app, notebookTracker, palette, mainMenu): both commands are added.
Activated(a) ==
    [a EXCEPT !.activated = TRUE,
              !.commands = @ \cup {insertPromptCommand, runPromptCommand}]

\* The plugin activated and the notebook the current widget.
ActivatedApp == [Activated(NoApp) EXCEPT !.currentWidget = "panel"]

\* A command that takes the open notebook when none is current.
AnyPanel(a) == "panel"

\* const panel = notebookTracker.currentWidget
CurrentPanel(a) == a.currentWidget

\* The state in which _callAI is called.
InitCallAI ==
    /\ pc = "idle"
    /\ kernelId \in KernelIds
    /\ cell = [isDisposed |-> FALSE, source |-> LoopInit.source,
               rendered |-> FALSE, activeRequest |-> FALSE,
               hasContent |-> FALSE, content |-> <<>>, buttons |-> 0]
    /\ listener = FALSE
    /\ aborted = FALSE
    /\ response = NoResponse
    /\ outputText = <<>>
    /\ buffer = <<>>
    /\ pending = <<>>
    /\ currentToolCall = NoToolCall
    /\ sent = <<>>
    /\ wire = <<>>
    /\ closed = FALSE
    /\ delivered = <<>>
    /\ linesLog = <<>>
    /\ eventLog = <<>>
    /\ exitPath = "none"
    /\ calls = [inFlight |-> 0, refused |-> 0]
    /\ runs = <<>>

\* A kernel that defines nothing, and one with a variable and a function.
NoKernel == [variables |-> {}, functions |-> {}]

SomeKernel == [variables |-> {<< << "x" >>, << "5" >> >>}, functions |-> {<< "f" >>}]

\* The handlers setupNotebook connects: to notebook.activeCellChanged, to
\* cells.changed and to panel.disposed.
SetupListeners == {"activeCellChanged", "cells.changed", "disposed"}

\* A new notebook: one empty code cell, which is active and has its widget.
\* The panel is set up: its context is ready, setupPanel has added the
\* button and setupNotebook has registered the connector and its handlers.
NewNotebook ==
    [cells |-> << NewCell(1) >>, rendered |-> {1}, classes |-> {},
     activeCellIndex |-> 0, mode |-> "command", connector |-> TRUE,
     nextUid |-> 2, inserts |-> 0, styleScheduled |-> FALSE,
     isDisposed |-> FALSE, isReady |-> TRUE, setupPc |-> "done",
     listeners |-> SetupListeners, buttons |-> 1]

\* setupNotebook(panel, connector): the connector is registered under the
\* panel's id, the prompt cells are styled, and the three handlers are
\* connected.
setupNotebook(nb) ==
    LET registered == [nb EXCEPT !.connector = TRUE]
    IN  [stylePromptCells(registered) EXCEPT !.listeners = SetupListeners,
                                             !.setupPc = "done"]

\* The handler of panel.disposed: the entry is deleted and the handlers of
\* activeCellChanged and cells.changed are disconnected; the signal's own
\* connections end with the panel.
onDisposed(nb) == [nb EXCEPT !.connector = FALSE, !.listeners = {}]

\* A frame callback that does not look at panel.isDisposed.
FrameCallbackUnchecked(nb) == setupNotebook(nb)

\* The callback doSetup passes to requestAnimationFrame.
FrameCallback(nb) ==
    IF nb.isDisposed THEN [nb EXCEPT !.setupPc = "skipped"] ELSE setupNotebook(nb)

\* doSetup of setupPanel: the toolbar button, and the frame asked for.
doSetup(nb) ==
    IF nb.isDisposed THEN [nb EXCEPT !.setupPc = "skipped"]
    ELSE [nb EXCEPT !.buttons = @ + 1, !.setupPc = "frame"]

\* A panel the tracker has just added: setupPanel has not run for it, and
\* its context is ready or still loading.
Opened(nb, ready) ==
    [nb EXCEPT !.connector = FALSE, !.listeners = {}, !.setupPc = "added",
               !.buttons = 0, !.classes = {}, !.isReady = ready]

\* _callAI is called with its output cell; the notebook plays no part.
Init ==
    /\ InitCallAI
    /\ app = ActivatedApp
    /\ notebook = NewNotebook
    /\ exec = NoExecution
    /\ kernel = NoKernel

\* The application has started: the plugin is not yet activated, a notebook
\* is open and is not the current widget.
InitCommands ==
    /\ InitCallAI
    /\ app = NoApp
    /\ kernelId = "k1"
    /\ notebook = NewNotebook
    /\ exec = NoExecution
    /\ kernel = SomeKernel

\* A notebook in use, every cell rendered.
InitNotebook ==
    /\ InitCallAI
    /\ app = ActivatedApp
    /\ kernelId = "k1"
    /\ notebook = NewNotebook
    /\ exec = NoExecution
    /\ kernel = SomeKernel

\* What the user types: code, and prompts after the prefix.
CodeTexts == { << "c1" >> }

PromptTexts == { << "$", "x", SP, "&", "f" >>, << "h", "i", SP, "$", "y" >> }

\* The characters of the prompts tried, and the prompts: every text of up to
\* MaxPromptLen of them.
PromptChars == {"$", "&", "x", "y", "2", SP}

AllPrompts == UNION { [1..n -> PromptChars] : n \in 0..MaxPromptLen }

\* The reprs of the kernel's variables: a number, a text with a run of
\* spaces, and a text that holds a & and a name.
Reprs == { << "5" >>, << "a", SP, SP, "b" >>, << "&", "f" >> }

\* Kernels with x and y defined or not, and the function f.
Kernels ==
    { [variables |-> vs, functions |-> {<< "f" >>}] :
        vs \in { xs \cup ys :
                   xs \in {{}} \cup { {<< << "x" >>, r >>} : r \in Reprs },
                   ys \in { {}, {<< << "y" >>, << "5" >> >>} } } }

\* A notebook of a code cell and a prompt cell, the prompt cell active.
PromptNotebook(text) ==
    [NewNotebook EXCEPT
        !.cells = << [NewCell(1) EXCEPT !.source = << "c1" >>],
                     [NewCell(2) EXCEPT !.type = "markdown",
                                        !.source = PromptSource \o text,
                                        !.isPromptCell = TRUE,
                                        !.model = DefaultModel] >>,
        !.rendered = {1, 2},
        !.classes = {<< 2, PROMPT_CELL_CLASS >>},
        !.activeCellIndex = 1,
        !.nextUid = 3,
        !.inserts = 1]

\* The user has typed a prompt, the kernel has its variables.
InitPrompt ==
    /\ InitCallAI
    /\ app = ActivatedApp
    /\ kernelId = "k1"
    /\ notebook \in { PromptNotebook(text) : text \in AllPrompts }
    /\ exec = NoExecution
    /\ kernel \in Kernels

\* The prompts and kernels tried for references the kernel does not resolve:
\* every text of up to MaxRefLen characters, and kernels that define the
\* variables x and y and the functions x and y or not.
MaxRefLen == 4

RefChars == {"$", "&", "x", "y", SP}

RefPrompts == UNION { [1..n -> RefChars] : n \in 0..MaxRefLen }

RefKernels ==
    { [variables |-> vs, functions |-> fs] :
        vs \in SUBSET { << << "x" >>, << "5" >> >>, << << "y" >>, << "2" >> >> },
        fs \in SUBSET { << "x" >>, << "y" >> } }

\* The user has typed a prompt; the kernel defines some of what it refers to.
InitUnresolved ==
    /\ InitCallAI
    /\ app = ActivatedApp
    /\ kernelId = "k1"
    /\ notebook \in { PromptNotebook(text) : text \in RefPrompts }
    /\ exec = NoExecution
    /\ kernel \in RefKernels

\* Mappings for substituteVariables, as the entries in iteration order:
\* values with the replacement patterns $& and $2, and with the reference of
\* the other variable.
ValuesOfX == { << "5" >>, << "$", "&" >>, << "$", "2" >>, << "$", "y" >> }

ValuesOfY == { << "5" >>, << "$", "x" >> }

Mappings ==
    { << << << "x" >>, vx >> >> : vx \in ValuesOfX }
    \cup { << << << "y" >>, vy >> >> : vy \in ValuesOfY }
    \cup { << << << "x" >>, vx >>, << << "y" >>, vy >> >> :
             vx \in ValuesOfX, vy \in ValuesOfY }
    \cup { << << << "y" >>, vy >>, << << "x" >>, vx >> >> :
             vx \in ValuesOfX, vy \in ValuesOfY }

\* substituteVariables is about to be called with a text and a mapping.
InitSubstitute ==
    /\ InitCallAI
    /\ app = ActivatedApp
    /\ kernelId = "k1"
    /\ notebook = NewNotebook
    /\ kernel = NoKernel
    /\ exec \in { [NoExecution EXCEPT !.pc = "substitute", !.cleanPrompt = text,
                                      !.variables = variableValues] :
                    text \in AllPrompts, variableValues \in Mappings }

\* The call of substituteVariables.
Substitute ==
    /\ exec.pc = "substitute"
    /\ exec' = [exec EXCEPT !.pc = "substituted",
                            !.result = substituteVariables(exec.cleanPrompt, exec.variables)]
    /\ UNCHANGED << notebook, runs, kernel, callVars, app >>

\* The characters and the longest length of the texts parsePrompt is tried on.
MaxParseLen == 6

ParseChars == {"$", "&", "x", "y", "2"}

ParseTexts == UNION { [1..n -> ParseChars] : n \in 0..MaxParseLen }

\* parsePrompt is about to be called with a text.
InitParse ==
    /\ InitCallAI
    /\ app = ActivatedApp
    /\ kernelId = "k1"
    /\ notebook = NewNotebook
    /\ kernel = NoKernel
    /\ exec \in { [NoExecution EXCEPT !.pc = "parse", !.cleanPrompt = text] :
                    text \in ParseTexts }

\* The call of parsePrompt: what it returns.
Parse ==
    /\ exec.pc = "parse"
    /\ LET parsed == parsePrompt(exec.cleanPrompt)
       IN  exec' = [exec EXCEPT !.pc = "parsed",
                               !.variables = parsed.variables,
                               !.functions = parsed.functions]
    /\ UNCHANGED << notebook, runs, kernel, callVars, app >>

\* The cells that can precede the prompt cell: code and markdown.
CodeCell(uid, source) == [NewCell(uid) EXCEPT !.source = source]

MarkdownCell(uid, source) == [NewCell(uid) EXCEPT !.type = "markdown", !.source = source]

PromptCell(uid, text) ==
    [NewCell(uid) EXCEPT !.type = "markdown", !.source = PromptSource \o text,
                         !.isPromptCell = TRUE, !.model = DefaultModel]

\* Notebooks of up to MaxCells - 1 cells, the last one a prompt cell, which
\* is active; every cell has its widget.
RECURSIVE CellRows(_)
CellRows(n) ==
    IF n = 0 THEN { <<>> }
    ELSE LET shorter == CellRows(n - 1)
         IN  shorter \cup
             { Append(row, c) :
                 row \in { r \in shorter : Len(r) = n - 1 },
                 c \in { CodeCell(n, << "c1" >>), CodeCell(n, << "c2" >>),
                         MarkdownCell(n, << "m" >>) } }

WindowNotebooks ==
    { [NewNotebook EXCEPT
          !.cells = Append(row, PromptCell(Len(row) + 1, text)),
          !.rendered = 1..(Len(row) + 1),
          !.classes = {<< Len(row) + 1, PROMPT_CELL_CLASS >>},
          !.activeCellIndex = Len(row),
          !.nextUid = Len(row) + 2,
          !.inserts = 1] :
        row \in CellRows(MaxCells - 2), text \in PromptTexts \cup { << "h", "i" >> } }

InitWindowed ==
    /\ InitCallAI
    /\ app = ActivatedApp
    /\ kernelId = "k1"
    /\ notebook \in WindowNotebooks
    /\ exec = NoExecution
    /\ kernel = SomeKernel

\* Notebooks opened with a prompt that refers to nothing, every cell with its
\* widget and styled by setupNotebook.
InitStyling ==
    /\ InitWindowed
    /\ ActiveCell(notebook).source = PromptSource \o << "h", "i" >>

\* The notebooks a panel opens with: a new one, one saved with a code cell
\* and a prompt cell, and one without cells.
OpenedNotebooks ==
    { Opened(nb, ready) :
        nb \in { NewNotebook,
                 PromptNotebook(<< "h", "i" >>),
                 [NewNotebook EXCEPT !.cells = <<>>, !.rendered = {}, !.nextUid = 1] },
        ready \in BOOLEAN }

\* The tracker has added a panel.
InitLifecycle ==
    /\ InitCallAI
    /\ app = ActivatedApp
    /\ kernelId = "k1"
    /\ notebook \in OpenedNotebooks
    /\ exec = NoExecution
    /\ kernel = SomeKernel

\* Windowing: a cell other than the active one scrolls out of the rendered
\* window and loses its widget, or scrolls in and gets one. The active cell
\* stays the active cell.
Scroll(uid) ==
    /\ \E k \in 1..Len(notebook.cells) : notebook.cells[k].uid = uid
    /\ ActiveCell(notebook) # NoCell
    /\ uid # ActiveCell(notebook).uid
    /\ LET active == ActiveCell(notebook).uid
           moved == [notebook EXCEPT
                        !.rendered = IF uid \in @ THEN @ \ {uid} ELSE @ \cup {uid},
                        !.classes = {c \in @ : c[1] # uid}]
       IN  notebook' = [moved EXCEPT !.activeCellIndex = WidgetIndexOf(moved, active)]
    /\ UNCHANGED << exec, runs, kernel, callVars, app >>

\* ------------------------------------------------- the notebook's commands
\* insertPromptCell(panel) and the signals it raises.
InsertPromptCell ==
    /\ Len(notebook.cells) < MaxCells
    /\ notebook.nextUid <= MaxCells
    /\ notebook' = OnActiveCellChanged(insertPromptCell(notebook))
    /\ UNCHANGED << exec, runs, kernel, callVars >>

\* The toolbar button of the notebook's panel.
InsertPrompt ==
    /\ InsertPromptCell
    /\ UNCHANGED app

\* executePromptCell up to its first await of the connector, or to its end
\* when the prompt refers to nothing: the guards, the cell's metadata and
\* source, parsePrompt, and the loop of _gatherContext over the widgets.
\* [nb, exec]
executePromptCell(nb, kid) ==
    LET activeCell == ActiveCell(nb)
    IN  IF activeCell = NoCell \/ ~IsPromptCell(activeCell)
        THEN [nb |-> nb,
              exec |-> [NoExecution EXCEPT !.pc = "returned",
                                           !.result = << "Not a prompt cell" >>]]
        ELSE IF ~HasConnector(nb)
        THEN [nb |-> nb,
              exec |-> [NoExecution EXCEPT !.pc = "returned",
                                           !.result = << "No kernel connector found" >>]]
        ELSE LET cleanPrompt == StripPromptPrefix(activeCell.source)
                 parsed == parsePrompt(cleanPrompt)
                 preceding == PrecedingCode(nb)
                 started == [NoExecution EXCEPT
                                !.pc = "variables",
                                !.promptUid = activeCell.uid,
                                !.model = IF activeCell.model = "undefined"
                                          THEN DefaultModel ELSE activeCell.model,
                                !.cleanPrompt = cleanPrompt,
                                !.todo = parsed.variables,
                                !.precedingCode = preceding.code]
             IN  IF ~preceding.ok
                 THEN [nb |-> nb, exec |-> [started EXCEPT !.pc = "rejected"]]
                 ELSE AfterResolve(nb, started, parsed.functions, kid)

\* The await of connector.getVariable(varName) resolves: _gatherContext
\* keeps the info of a variable the kernel has, and goes on.  [nb, exec]
resolveVariable(nb, ex, k, kid) ==
    LET varName == Head(ex.todo)
        info == GetVariable(k, varName)
        got == [ex EXCEPT
                   !.todo = Tail(@),
                   !.variables = IF info = NoInfo THEN @
                                 ELSE Append(@, << varName, info >>)]
    IN  AfterResolve(nb, got, parsePrompt(ex.cleanPrompt).functions, kid)

\* The await of connector.getFunction(funcName) resolves.  [nb, exec]
resolveFunction(nb, ex, k, kid) ==
    LET funcName == Head(ex.todo)
        info == GetFunction(k, funcName)
        got == [ex EXCEPT
                   !.todo = Tail(@),
                   !.functions = IF info = NoInfo THEN @ ELSE Append(@, funcName)]
    IN  AfterResolve(nb, got, <<>>, kid)

\* executePromptCell(panel) is called while no call of it is awaiting.
ExecutePromptCell ==
    /\ exec.pc \notin {"variables", "functions"}
    /\ Len(notebook.cells) < MaxCells
    /\ notebook.nextUid <= MaxCells
    /\ LET r == executePromptCell(notebook, kernelId)
       IN  /\ exec' = r.exec
           /\ notebook' = r.nb
    /\ UNCHANGED << runs, kernel, callVars >>

\* executePromptCell is called on the notebook's panel.
ExecuteStart ==
    /\ ExecutePromptCell
    /\ UNCHANGED app

\* connector.getVariable(varName) resolves.
ResolveVariable ==
    /\ exec.pc = "variables"
    /\ exec.todo # <<>>
    /\ LET r == resolveVariable(notebook, exec, kernel, kernelId)
       IN  /\ exec' = r.exec
           /\ notebook' = r.nb
    /\ UNCHANGED << runs, kernel, callVars, app >>

\* connector.getFunction(funcName) resolves.
ResolveFunction ==
    /\ exec.pc = "functions"
    /\ exec.todo # <<>>
    /\ LET r == resolveFunction(notebook, exec, kernel, kernelId)
       IN  /\ exec' = r.exec
           /\ notebook' = r.nb
    /\ UNCHANGED << runs, kernel, callVars, app >>

\* ---------------------------------------------------------------- the user
\* The user replaces what the active cell holds: code in a code cell, the
\* text after the prefix in a prompt cell.
TypeSource(text) ==
    /\ ActiveCell(notebook) # NoCell
    /\ LET c == ActiveCell(notebook)
           source == IF IsPromptCell(c) THEN PromptSource \o text ELSE text
       IN  /\ IF IsPromptCell(c) THEN text \in PromptTexts ELSE text \in CodeTexts
           /\ c.type = "code" \/ IsPromptCell(c)
           /\ c.source # source
           /\ notebook' =
                 [notebook EXCEPT !.cells =
                     [k \in 1..Len(@) |->
                         IF @[k].uid = c.uid THEN [@[k] EXCEPT !.source = source]
                         ELSE @[k]]]
    /\ UNCHANGED << exec, runs, kernel, callVars, app >>

\* The user makes another cell the active one.
SelectCell(i) ==
    /\ i \in 0..(Len(Widgets(notebook)) - 1)
    /\ i # notebook.activeCellIndex
    /\ notebook' = OnActiveCellChanged([notebook EXCEPT !.activeCellIndex = i,
                                                         !.mode = "command"])
    /\ UNCHANGED << exec, runs, kernel, callVars, app >>

\* ------------------------------------------------------------- the plugin
\* The application activates the plugin.
Activate ==
    /\ ~app.activated
    /\ app' = Activated(app)
    /\ UNCHANGED << nbVars, callVars >>

\* The notebook becomes the current widget of the tracker, or stops being it
\* (another widget is current, or none).
Focus(widget) ==
    /\ widget \in {"null", "panel"}
    /\ widget # app.currentWidget
    /\ app' = [app EXCEPT !.currentWidget = widget]
    /\ UNCHANGED << nbVars, callVars >>

\* app.commands.execute(id) for a registered command.
Invoked(id) ==
    /\ id \in app.commands
    /\ Len(app.log) < MaxInvocations
    /\ app' = [app EXCEPT !.log = Append(@, << id, app.currentWidget >>)]

\* execute of ai-jup:insert-prompt-cell
InsertPromptCommand ==
    /\ Invoked(insertPromptCommand)
    /\ IF CurrentPanel(app) = "null"
       THEN UNCHANGED << nbVars, callVars >>
       ELSE InsertPromptCell

\* execute of ai-jup:run-prompt
RunPromptCommand ==
    /\ Invoked(runPromptCommand)
    /\ IF CurrentPanel(app) = "null"
       THEN UNCHANGED << nbVars, callVars >>
       ELSE ExecutePromptCell

\* The frame onCellsChanged asked for: stylePromptCells.
StyleFrame ==
    /\ notebook.styleScheduled
    /\ notebook' = [stylePromptCells(notebook) EXCEPT !.styleScheduled = FALSE]
    /\ UNCHANGED << exec, runs, kernel, callVars, app >>

\* The user deletes the active cell: its widget is disposed and the cell
\* that takes its place, or the last one, becomes active.
DeleteActive ==
    /\ Len(notebook.cells) > 1
    /\ ActiveCell(notebook) # NoCell
    /\ LET uid == ActiveCell(notebook).uid
           at == CHOOSE k \in 1..Len(notebook.cells) : notebook.cells[k].uid = uid
           index == notebook.activeCellIndex
           removed == [DeleteCell(notebook, at - 1) EXCEPT !.activeCellIndex = index]
       IN  notebook' = OnActiveCellChanged(
                           [removed EXCEPT !.activeCellIndex = ClampIndex(removed, index),
                                           !.mode = "command"])
    /\ UNCHANGED << exec, runs, kernel, callVars, app >>

\* ---------------------------------------------------- the panel's lifecycle
\* setupPanel(panel), from widgetAdded or from forEach: doSetup now when the
\* context is ready, else when it becomes ready.
SetupPanel ==
    /\ notebook.setupPc = "added"
    /\ notebook' = IF notebook.isReady THEN doSetup(notebook)
                   ELSE [notebook EXCEPT !.setupPc = "waiting"]
    /\ UNCHANGED << exec, runs, kernel, callVars, app >>

\* panel.context.ready resolves, and with it the doSetup that waits for it.
ContextReady ==
    /\ ~notebook.isReady
    /\ LET ready == [notebook EXCEPT !.isReady = TRUE]
       IN  notebook' = IF notebook.setupPc = "waiting" THEN doSetup(ready) ELSE ready
    /\ UNCHANGED << exec, runs, kernel, callVars, app >>

\* The frame doSetup asked for.
SetupFrame ==
    /\ notebook.setupPc = "frame"
    /\ notebook' = FrameCallback(notebook)
    /\ UNCHANGED << exec, runs, kernel, callVars, app >>

\* The user closes the notebook: panel.disposed fires.
DisposePanel ==
    /\ ~notebook.isDisposed
    /\ LET disposed == [notebook EXCEPT !.isDisposed = TRUE]
       IN  notebook' = IF "disposed" \in notebook.listeners THEN onDisposed(disposed)
                       ELSE disposed
    /\ UNCHANGED << exec, runs, kernel, callVars, app >>

\* ------------------------------------------------- overlapping executions
\* The calls of executePromptCell that may overlap, and the chunks each reads.
MaxRuns == 2

MaxChunks == 2

\* outputCell.model.sharedModel.setSource(outputText)
SetSource(nb, uid, source) ==
    [nb EXCEPT !.cells =
        [k \in 1..Len(@) |->
            IF @[k].uid = uid THEN [@[k] EXCEPT !.source = source] ELSE @[k]]]

\* One call of executePromptCell: its locals up to the call of _callAI, and
\* the locals of that call of _callAI (outputText, buffer, currentToolCall)
\* with the events it has read.
NewRun(ex) == [ex |-> ex, loop |-> LoopInit, received |-> <<>>]

\* An output cell kept in one place for all calls: the one created last.
LastOutputCell(rs, r) ==
    LET called == { i \in 1..Len(rs) : rs[i].ex.pc = "called" }
        last == CHOOSE i \in called :
                    \A j \in called : rs[j].ex.outputUid <= rs[i].ex.outputUid
    IN  rs[last].ex.outputUid

\* The outputCell of call r: the cell its _insertOutputCell returned, passed
\* to its _callAI.
OutputCellOf(rs, r) == rs[r].ex.outputUid

\* A notebook of two prompt cells, one of them active; the first refers to a
\* variable and a function, the second to a variable or to nothing.
ConcurrentNotebooks ==
    { [NewNotebook EXCEPT
          !.cells = << PromptCell(1, << "$", "x", SP, "&", "f" >>), PromptCell(2, text) >>,
          !.rendered = {1, 2},
          !.classes = {<< 1, PROMPT_CELL_CLASS >>, << 2, PROMPT_CELL_CLASS >>},
          !.activeCellIndex = active,
          !.nextUid = 3,
          !.inserts = 2] :
        text \in { << "h", "i" >>, << "h", "i", SP, "$", "y" >> }, active \in {0, 1} }

InitConcurrent ==
    /\ InitCallAI
    /\ app = ActivatedApp
    /\ kernelId = "k1"
    /\ notebook \in ConcurrentNotebooks
    /\ exec = NoExecution
    /\ kernel = SomeKernel

\* executePromptCell(panel) is called on a prompt cell, whatever the earlier
\* calls are doing.
StartRun ==
    /\ Len(runs) < MaxRuns
    /\ IsPromptCell(ActiveCell(notebook))
    /\ LET r == executePromptCell(notebook, kernelId)
       IN  /\ runs' = Append(runs, NewRun(r.exec))
           /\ notebook' = r.nb
    /\ UNCHANGED << exec, kernel, callVars, app >>

\* The connector answers call r: its _gatherContext goes on, and at its end
\* the call inserts its output cell and calls _callAI.
GatherRun(r) ==
    /\ r \in 1..Len(runs)
    /\ runs[r].ex.pc \in {"variables", "functions"}
    /\ LET res == IF runs[r].ex.pc = "variables"
                  THEN resolveVariable(notebook, runs[r].ex, kernel, kernelId)
                  ELSE resolveFunction(notebook, runs[r].ex, kernel, kernelId)
       IN  /\ runs' = [runs EXCEPT ![r].ex = res.exec]
           /\ notebook' = res.nb
    /\ UNCHANGED << exec, kernel, callVars, app >>

\* The _callAI of call r reads the frame of one event: one turn of its while
\* loop, which writes what it renders to its outputCell.
StreamRun(r, e) ==
    /\ r \in 1..Len(runs)
    /\ runs[r].ex.pc = "called"
    /\ Len(runs[r].received) < MaxChunks
    /\ LET c == ConsumeChunk(runs[r].loop, Encode(e), kernelId)
       IN  /\ runs' = [runs EXCEPT ![r].loop = c, ![r].received = Append(@, e)]
           /\ notebook' = IF c.outputText # runs[r].loop.outputText
                          THEN SetSource(notebook, OutputCellOf(runs, r), c.source)
                          ELSE notebook
    /\ UNCHANGED << exec, kernel, callVars, app >>

\* ---------------------------------------------------------------- _callAI
\* The guard, the flag, the abort controller and the call of fetch.
CallAI ==
    /\ pc = "idle"
    /\ ~ExistingRequest(cell)
    /\ cell' = [cell EXCEPT !.activeRequest = TRUE]
    /\ listener' = TRUE
    /\ pc' = "fetch"
    /\ calls' = [calls EXCEPT !.inFlight = @ + 1]
    /\ UNCHANGED << kernelId, aborted, response, loopVars, netVars, exitPath >>
    /\ UNCHANGED << nbVars, app >>

\* _callAI is called on the cell again while its request is in flight: with
\* the flag set it returns at the guard, before the try; without the guard it
\* would set the flag and fetch as well.
CallAIBusy ==
    /\ pc \in {"fetch", "json", "read"}
    /\ ~cell.isDisposed
    /\ calls.refused < MaxRefused
    /\ calls.inFlight <= MaxRefused
    /\ IF ExistingRequest(cell)
       THEN /\ calls' = [calls EXCEPT !.refused = @ + 1]
            /\ UNCHANGED cell
       ELSE /\ calls' = [calls EXCEPT !.inFlight = @ + 1]
            /\ cell' = [cell EXCEPT !.activeRequest = TRUE]
    /\ UNCHANGED << pc, kernelId, listener, aborted, response, loopVars, netVars,
                    exitPath >>
    /\ UNCHANGED << nbVars, app >>

\* fetch resolves: a non-OK response goes on to response.json(), a response
\* without body throws, a stream enters the loop.
FetchResolve(resp) ==
    /\ pc = "fetch"
    /\ ~aborted
    /\ response' = resp
    /\ IF ~resp.ok
       THEN /\ pc' = "json"
            /\ UNCHANGED << cell, listener, exitPath, calls >>
       ELSE IF ~resp.body
       THEN Exit(CatchError(cell, << "Error: No response body" >>), "error")
       ELSE /\ pc' = "read"
            /\ UNCHANGED << cell, listener, exitPath, calls >>
    /\ UNCHANGED << kernelId, aborted, loopVars, netVars >>
    /\ UNCHANGED << nbVars, app >>

\* fetch rejects because the network failed.
FetchFail ==
    /\ pc = "fetch"
    /\ ~aborted
    /\ Exit(CatchError(cell, << "TypeError: Failed to fetch" >>), "error")
    /\ UNCHANGED << kernelId, aborted, response, loopVars, netVars >>
    /\ UNCHANGED << nbVars, app >>

\* fetch rejects with an AbortError: the catch returns.
AbortFetch ==
    /\ pc = "fetch"
    /\ aborted
    /\ Exit(cell, "abort")
    /\ UNCHANGED << kernelId, aborted, response, loopVars, netVars >>
    /\ UNCHANGED << nbVars, app >>

\* response.json() settles: the error thrown carries the body's error field
\* or the HTTP status.
JsonResolve ==
    /\ pc = "json"
    /\ ~aborted
    /\ Exit(CatchError(cell, << "Error: " >> \o ErrorMessage(response)), "error")
    /\ UNCHANGED << kernelId, aborted, response, loopVars, netVars >>
    /\ UNCHANGED << nbVars, app >>

\* response.json() rejects with an AbortError, which its catch swallows; the
\* error thrown is the HTTP status one.
AbortJson ==
    /\ pc = "json"
    /\ aborted
    /\ Exit(CatchError(cell, << "Error: " >> \o HttpStatus), "error")
    /\ UNCHANGED << kernelId, aborted, response, loopVars, netVars >>
    /\ UNCHANGED << nbVars, app >>

\* reader.read() resolves with the next n bytes, the cell alive: one turn of
\* the while loop.
Read(n) ==
    /\ pc = "read"
    /\ ~cell.isDisposed
    /\ n \in 1..Len(wire)
    /\ LET r == ConsumeChunk(Loop, Take(wire, n), kernelId)
       IN  /\ SetLoop(r)
           /\ cell' = [cell EXCEPT !.source = r.source]
    /\ wire' = Drop(wire, n)
    /\ delivered' = delivered \o Take(wire, n)
    /\ UNCHANGED << pc, kernelId, listener, aborted, response, sent, closed, exitPath, calls >>
    /\ UNCHANGED << nbVars, app >>

\* reader.read() resolves with done, the cell alive: the loop ends and the
\* output is finalized.
ReadDone ==
    /\ pc = "read"
    /\ ~cell.isDisposed
    /\ wire = <<>>
    /\ closed
    /\ Exit(Finalize(cell, outputText), "finalized")
    /\ UNCHANGED << kernelId, aborted, response, loopVars, netVars >>
    /\ UNCHANGED << nbVars, app >>

\* reader.read() resolves after the cell was disposed: the loop breaks
\* without decoding what was read.
ReadDisposed ==
    /\ pc = "read"
    /\ cell.isDisposed
    /\ wire # <<>> \/ closed
    /\ Exit(Finalize(cell, outputText), "disposed")
    /\ UNCHANGED << kernelId, aborted, response, loopVars, netVars >>
    /\ UNCHANGED << nbVars, app >>

\* reader.read() rejects because the network failed mid-stream.
ReadFail ==
    /\ pc = "read"
    /\ ~aborted
    /\ IF cell.isDisposed
       THEN Exit(Finalize(cell, outputText), "disposed")
       ELSE Exit(CatchError(cell, << "TypeError: network error" >>), "error")
    /\ UNCHANGED << kernelId, aborted, response, loopVars, netVars >>
    /\ UNCHANGED << nbVars, app >>

\* reader.read() rejects with an AbortError: the cell is disposed, the loop
\* breaks.
ReadAbort ==
    /\ pc = "read"
    /\ aborted
    /\ IF cell.isDisposed
       THEN Exit(Finalize(cell, outputText), "disposed")
       ELSE Exit(cell, "abort")
    /\ UNCHANGED << kernelId, aborted, response, loopVars, netVars >>
    /\ UNCHANGED << nbVars, app >>

\* The output cell is disposed (deleted, or its notebook closed); a connected
\* abortOnDispose aborts the request.
Dispose ==
    /\ pc \in {"fetch", "json", "read"}
    /\ ~cell.isDisposed
    /\ cell' = [cell EXCEPT !.isDisposed = TRUE]
    /\ aborted' = (aborted \/ listener)
    /\ UNCHANGED << pc, kernelId, listener, response, loopVars, netVars, exitPath, calls >>
    /\ UNCHANGED << nbVars, app >>

\* ------------------------------------------------------------ environment
\* The server writes one more item to the open stream.
ServerSend(e) ==
    /\ pc = "read"
    /\ ~closed
    /\ ~aborted
    /\ Len(sent) < MaxItems
    /\ Len(wire) <= MaxInFlight
    /\ sent' = Append(sent, e)
    /\ wire' = wire \o Encode(e)
    /\ UNCHANGED << pc, kernelId, cell, listener, aborted, response, loopVars,
                    closed, delivered, exitPath, calls >>
    /\ UNCHANGED << nbVars, app >>

\* The server closes the connection.
ServerClose ==
    /\ pc = "read"
    /\ ~closed
    /\ ~aborted
    /\ closed' = TRUE
    /\ UNCHANGED << pc, kernelId, cell, listener, aborted, response, loopVars,
                    sent, wire, delivered, exitPath, calls >>
    /\ UNCHANGED << nbVars, app >>

\* The steps of _callAI and of the cell, whatever the server sends.
Client ==
    \/ CallAI
    \/ \E resp \in Responses : FetchResolve(resp)
    \/ FetchFail
    \/ AbortFetch
    \/ JsonResolve
    \/ AbortJson
    \/ \E n \in 1..Len(wire) : Read(n)
    \/ ReadDone
    \/ ReadDisposed
    \/ ReadFail
    \/ ReadAbort
    \/ Dispose

\* Items of a mixed stream: text with a two-byte character, a tool call and
\* an input fragment, and a frame of truncated JSON.
T1 == << "t1" >>

T2 == << "t2" >>

Truncated == Prefix \o << "{", Q, "text", Q, ":", Q, "a" >>

MixedItems ==
    { Event("text", <<>>, << E_ACUTE >>),
      Event("tool_call", T1, << "f" >>),
      Event("tool_input", <<>>, << "x" >>),
      Event("raw", <<>>, Truncated) }

\* Text and terminal events, with empty payloads.
TextItems ==
    { Event("text", <<>>, << "a" >>),
      Event("text", <<>>, <<>>),
      Event("error", <<>>, << "m" >>),
      Event("error", <<>>, <<>>),
      Event("done", <<>>, <<>>) }

\* Tool events: two calls, an input fragment, the result of the first call.
ToolItems ==
    { Event("tool_call", T1, << "f" >>),
      Event("tool_call", T2, << "g" >>),
      Event("tool_input", <<>>, << "x" >>),
      Event("tool_result", T1, << "r" >>) }

\* Lines that are not event frames: a comment, another field, and frames
\* whose prefix is not at the start of the line or lacks its space.
TextFrame == Stringify(EventValue(Event("text", <<>>, << "b" >>)))

LineItems ==
    { Event("text", <<>>, << "a" >>),
      Event("raw", <<>>, << ":", SP, "ping" >>),
      Event("raw", <<>>, << SP >> \o Prefix \o TextFrame),
      Event("raw", <<>>, << "data:" >> \o TextFrame) }

\* Frames of well-formed JSON without any key the loop knows: another key
\* with a string, and another key whose value has the members of a tool call.
UnknownFrames ==
    { Prefix \o Stringify(Obj(<< << << "usage" >>, Str(<< "n" >>) >> >>)),
      Prefix \o Stringify(Obj(<< << << "thinking" >>,
                                   Obj(<< << << "id" >>, Str(T1) >>,
                                          << << "name" >>, Str(<< "f" >>) >> >>) >> >>)) }

UnknownItems ==
    { Event("text", <<>>, << "a" >>), Event("tool_call", T1, << "f" >>) }
    \cup { Event("raw", <<>>, f) : f \in UnknownFrames }

\* A stream through a proxy that ends lines in CR LF: the frame lines and
\* the blank line after a frame, and a frame the proxy left alone.
FrameLine(e) == Prefix \o Stringify(EventValue(e))

CrlfItems ==
    { Event("raw", <<>>, FrameLine(Event("text", <<>>, << "a" >>)) \o << CR >>),
      Event("raw", <<>>, FrameLine(Event("tool_call", T1, << "f" >>)) \o << CR >>),
      Event("raw", <<>>, << CR >>),
      Event("text", <<>>, << "b" >>) }

Next ==
    \/ Client
    \/ \E e \in MixedItems : ServerSend(e)
    \/ ServerClose

NextText ==
    \/ Client
    \/ \E e \in TextItems : ServerSend(e)
    \/ ServerClose

NextTools ==
    \/ Client
    \/ \E e \in ToolItems : ServerSend(e)
    \/ ServerClose

NextLines ==
    \/ Client
    \/ \E e \in LineItems : ServerSend(e)
    \/ ServerClose

NextUnknown ==
    \/ Client
    \/ \E e \in UnknownItems : ServerSend(e)
    \/ ServerClose

NextCrlf ==
    \/ Client
    \/ \E e \in CrlfItems : ServerSend(e)
    \/ ServerClose

\* The steps of executePromptCell.
Execute ==
    \/ ExecuteStart
    \/ ResolveVariable
    \/ ResolveFunction

NextNotebook ==
    \/ InsertPrompt
    \/ Execute
    \/ StyleFrame
    \/ \E text \in CodeTexts \cup PromptTexts : TypeSource(text)
    \/ \E i \in 0..(MaxCells - 1) : SelectCell(i)

NextWindowed ==
    \/ Execute
    \/ \E uid \in 1..MaxCells : Scroll(uid)

\* The events that are rendered: a text delta, an in-band error, a tool call
\* and its result.
RenderItems ==
    { Event("text", <<>>, << "a" >>),
      Event("error", <<>>, << "m" >>),
      Event("tool_call", T1, << "f" >>),
      Event("tool_result", T1, << "r" >>) }

NextRender ==
    \/ Client
    \/ \E e \in RenderItems : ServerSend(e)
    \/ ServerClose

\* A stream that can end in a line without its newline: whole frames of a
\* text and of done that lack it, a frame cut short, and the newline alone.
PartialItems ==
    { Event("text", <<>>, << "a" >>),
      Event("partial", <<>>, FrameLine(Event("text", <<>>, << "b" >>))),
      Event("partial", <<>>, FrameLine(Event("done", <<>>, <<>>))),
      Event("raw", <<>>, <<>>) }

NextPartial ==
    \/ Client
    \/ \E e \in PartialItems : ServerSend(e)
    \/ ServerClose

\* A stream of tool calls, their results, text and done.
DoneItems ==
    { Event("tool_call", T1, << "f" >>),
      Event("tool_result", T1, << "r" >>),
      Event("text", <<>>, << "a" >>),
      Event("done", <<>>, <<>>) }

NextDone ==
    \/ Client
    \/ \E e \in DoneItems : ServerSend(e)
    \/ ServerClose

\* A short stream, for the calls made while it is read.
BusyItems == { Event("text", <<>>, << "a" >>), Event("done", <<>>, <<>>) }

NextBusy ==
    \/ Client
    \/ CallAIBusy
    \/ \E e \in BusyItems : ServerSend(e)
    \/ ServerClose

NextCommands ==
    \/ Activate
    \/ \E widget \in {"null", "panel"} : Focus(widget)
    \/ InsertPromptCommand
    \/ RunPromptCommand
    \/ ResolveVariable
    \/ ResolveFunction
    \/ \E text \in PromptTexts : TypeSource(text)

NextStyling ==
    \/ InsertPrompt
    \/ ExecuteStart
    \/ \E i \in 0..(MaxCells - 1) : SelectCell(i)
    \/ DeleteActive
    \/ StyleFrame
    \/ \E uid \in 1..MaxCells : Scroll(uid)

\* The user edits the notebook while executePromptCell awaits the connector.
NextEdits ==
    \/ Execute
    \/ InsertPrompt
    \/ \E i \in 0..(MaxCells - 1) : SelectCell(i)
    \/ DeleteActive
    \/ StyleFrame

\* A panel from the moment the tracker adds it to its disposal, with the
\* user at work in it while it is open.
NextLifecycle ==
    \/ SetupPanel
    \/ ContextReady
    \/ SetupFrame
    \/ DisposePanel
    \/ StyleFrame
    \/ /\ ~notebook.isDisposed
       /\ \/ InsertPrompt
          \/ ExecuteStart
          \/ \E i \in 0..(MaxCells - 1) : SelectCell(i)

\* What the backend streams to a call: two texts and a tool call.
RunItems ==
    { Event("text", <<>>, << "a" >>),
      Event("text", <<>>, << "b" >>),
      Event("tool_call", T1, << "f" >>) }

\* Calls of executePromptCell that overlap, the user selecting the prompt
\* cell to run next.
NextConcurrent ==
    \/ StartRun
    \/ \E r \in 1..MaxRuns : GatherRun(r)
    \/ \E r \in 1..MaxRuns, e \in RunItems : StreamRun(r, e)
    \/ \E i \in 0..MaxCells : SelectCell(i)

\* The steps _callAI takes by itself once what it awaits has settled: the
\* continuation after a read that has bytes or the end of the stream, and
\* after a rejection by abort. That the server sends or closes, that the
\* network fails and that the cell is disposed is up to the environment.
Progress ==
    \/ CallAI
    \/ AbortFetch
    \/ AbortJson
    \/ \E n \in 1..Len(wire) : Read(n)
    \/ ReadDone
    \/ ReadDisposed
    \/ ReadAbort

\* A stream of mixed items.
Spec == Init /\ [][Next]_vars

\* A stream of text and terminal events.
SpecText == Init /\ [][NextText]_vars

\* A stream of tool events.
SpecTools == Init /\ [][NextTools]_vars

\* A stream with lines that are not event frames.
SpecLines == Init /\ [][NextLines]_vars

\* A stream with frames of unknown keys.
SpecUnknown == Init /\ [][NextUnknown]_vars

\* A stream with CR LF line endings.
SpecCRLF == Init /\ [][NextCrlf]_vars

\* A notebook with its commands and its user, every cell rendered.
SpecNotebook == InitNotebook /\ [][NextNotebook]_vars

\* executePromptCell on every prompt, with every kernel.
SpecPrompt == InitPrompt /\ [][Execute]_vars

\* substituteVariables on every text and mapping.
SpecSubstitute == InitSubstitute /\ [][Substitute]_vars

\* executePromptCell in a notebook whose cells scroll in and out of the
\* rendered window.
SpecWindowed == InitWindowed /\ [][NextWindowed]_vars

\* A notebook with its commands, its user and the styling of setupNotebook,
\* the cells scrolling in and out of the rendered window.
SpecStyling == InitStyling /\ [][NextStyling]_vars

\* A stream of rendered events.
SpecRender == Init /\ [][NextRender]_vars

\* A stream that can end in the middle of a line.
SpecPartial == Init /\ [][NextPartial]_vars

\* A stream with done events, with and without a kernel.
SpecDone == Init /\ [][NextDone]_vars

\* _callAI called again on the cell of a request in flight.
SpecBusy == Init /\ [][NextBusy]_vars

\* The plugin's commands, with the notebook current or not.
SpecCommands == InitCommands /\ [][NextCommands]_vars

\* parsePrompt on every text.
SpecParse == InitParse /\ [][Parse]_vars

\* executePromptCell on prompts whose references the kernel resolves or not.
SpecUnresolved == InitUnresolved /\ [][Execute]_vars

\* Notebooks that open with a prompt cell, every cell rendered: the prompt
\* is executed time after time.
SpecOutputs == InitWindowed /\ [][NextNotebook]_vars

\* executePromptCell in a notebook the user goes on editing, every cell
\* rendered.
SpecEdits == InitWindowed /\ [][NextEdits]_vars

\* The plugin's setup of a panel, and the panel's disposal.
SpecLifecycle == InitLifecycle /\ [][NextLifecycle]_vars

\* executePromptCell called again while earlier calls gather or stream.
SpecConcurrent == InitConcurrent /\ [][NextConcurrent]_vars

\* ----------------------------------------------------------------- claims
\* What the loop makes of the delivered bytes when they come in one read.
OneRead == ConsumeChunk(LoopInit, delivered, kernelId)

\* The text of the delivered bytes, cut at the newlines.
DeliveredLines == Split(Decode(<<>>, delivered).out, NL)

\* C1: byte-chunking is not observable. However the delivered bytes were cut
\* into reads, the loop has processed the lines a single read of them gives,
\* with the same output text and tool-call state; each line was processed
\* once, when its newline arrived, and the text after the last newline is
\* held in the buffer; a finalized cell holds that same output.
C1_ChunkingNotObservable ==
    LET one == OneRead
        all == DeliveredLines
    IN  /\ linesLog = one.linesLog
        /\ outputText = one.outputText
        /\ currentToolCall = one.currentToolCall
        /\ eventLog = one.eventLog
        /\ linesLog = Take(all, Len(all) - 1)
        /\ buffer = all[Len(all)]
        /\ exitPath = "finalized" =>
                cell.content = one.outputText /\ cell.source = one.source

\* A read has ended inside the two-byte character of a text frame, whose
\* line is held in the buffer, after an earlier frame was processed.
C1_Witness ==
    /\ pc = "read"
    /\ pending = << LEAD >>
    /\ StartsWith(buffer, Prefix)
    /\ eventLog # <<>>

\* The lines of the delivered text that are complete.
CompleteLines == Take(DeliveredLines, Len(DeliveredLines) - 1)

\* The lines an item puts on the wire.
LinesOf(e) == IF e.tag = "raw" THEN 1 ELSE 2

\* The items whose first line is among the first n complete lines.
RECURSIVE ReceivedFrom(_, _)
ReceivedFrom(items, n) ==
    IF items = <<>> \/ n < 1 THEN <<>>
    ELSE << Head(items) >> \o ReceivedFrom(Tail(items), n - LinesOf(Head(items)))

IsEvent(e) == e.tag # "raw"

\* The events sent whose frame line the loop has received whole.
ReceivedEvents == SelectSeq(ReceivedFrom(sent, Len(CompleteLines)), IsEvent)

\* The payload value of an event: the value under its tag in its frame.
Payload(e) == Prop(EventValue(e), << e.tag >>)

\* The greatest index of an event of the tag in ev, 0 when there is none.
LastOf(ev, tag) ==
    LET at == {i \in 1..Len(ev) : ev[i].tag = tag}
    IN  IF at = {} THEN 0 ELSE CHOOSE i \in at : \A j \in at : j <= i

\* The tool_input fragments among events a..b of ev, concatenated in order.
RECURSIVE Fragments(_, _, _)
Fragments(ev, a, b) ==
    IF a > b THEN <<>>
    ELSE (IF ev[a].tag = "tool_input" THEN ev[a].v ELSE <<>>) \o Fragments(ev, a + 1, b)

\* A terminal event, done or error, is among the recognised ones.
TerminalSeen == \E i \in 1..Len(eventLog) : eventLog[i].tag \in {"done", "error"}

\* C2: round trip. The events the loop has recognised are the events sent
\* whose frame it has received, with the same tags and payload values in the
\* same order, empty payloads included.
C2_RoundTrip ==
    LET ev == ReceivedEvents
    IN  eventLog = [i \in 1..Len(ev) |-> [tag |-> ev[i].tag, val |-> Payload(ev[i])]]

\* A data line whose content JSON.parse rejects.
Malformed(rawLine) ==
    /\ IsDataLine(StripCR(rawLine))
    /\ ~JSONparse(Drop(StripCR(rawLine), Len(Prefix))).ok

WellFormed(rawLine) == ~Malformed(rawLine)

\* C3: a data line whose JSON does not parse changes nothing and stops
\* nothing. Output text, tool-call state and recognised events are those of
\* the complete lines received with the malformed ones left out, so every
\* well-formed frame after a malformed one is processed; the buffer holds the
\* text after the last newline.
C3_MalformedFrameIgnored ==
    LET good == ProcessLines(LoopInit, SelectSeq(CompleteLines, WellFormed), kernelId)
    IN  /\ outputText = good.outputText
        /\ currentToolCall = good.currentToolCall
        /\ eventLog = good.eventLog
        /\ pc = "read" => cell.source = good.source
        /\ buffer = DeliveredLines[Len(DeliveredLines)]

\* The first line sent was truncated JSON, and a frame sent after it has
\* been recognised.
C3_Witness ==
    /\ sent # <<>>
    /\ sent[1] = Event("raw", <<>>, Truncated)
    /\ linesLog # <<>>
    /\ linesLog[1] = Truncated
    /\ eventLog # <<>>

\* C4: at most one tool call is open. After the events received, the open
\* call is the last tool_call if no tool_result came after it, with its id
\* and name and, as input, the fragments received since in order; otherwise
\* no call is open.
C4_OneOpenToolCall ==
    LET ev == ReceivedEvents
        o == LastOf(ev, "tool_call")
        r == LastOf(ev, "tool_result")
    IN  IF o > r
        THEN currentToolCall =
                 [open |-> TRUE, name |-> Str(ev[o].v), id |-> Str(ev[o].id),
                  input |-> Fragments(ev, o + 1, Len(ev))]
        ELSE currentToolCall = NoToolCall

\* Two fragments have been appended to the open call.
C4_Witness ==
    /\ currentToolCall.open
    /\ currentToolCall.input = << "x", "x" >>

\* C5: a tool_call received while another is open does not overwrite it:
\* every call received and not yet closed by a tool_result still has its id
\* and the input accumulated for it in the consumer's state.
C5_EarlierCallRetained ==
    LET ev == ReceivedEvents
        r == LastOf(ev, "tool_result")
    IN  \A i \in (r + 1)..Len(ev) :
            ev[i].tag = "tool_call" =>
                /\ currentToolCall.open
                /\ currentToolCall.id = Str(ev[i].id)
                /\ \E j \in i..Len(ev) :
                       /\ \A k \in (i + 1)..j : ev[k].tag # "tool_call"
                       /\ StartsWith(currentToolCall.input, Fragments(ev, i + 1, j))
                       /\ j = Len(ev) \/ ev[j + 1].tag = "tool_call"

\* C6: no orphan results. Every tool_result the loop has rendered carries the
\* id of a tool_call it recognised earlier on the stream.
C6_NoOrphanResult ==
    \A i \in 1..Len(eventLog) :
        eventLog[i].tag = "tool_result" =>
            \E j \in 1..(i - 1) :
                /\ eventLog[j].tag = "tool_call"
                /\ Prop(eventLog[j].val, << "id" >>) = Prop(eventLog[i].val, << "id" >>)

\* C7: stream end by terminal event. Once done or error has been recognised,
\* _callAI stops reading and returns whether the server closes the connection
\* or not: it has returned, or it can take its next step without waiting for
\* the server, the network or the cell.
C7_TerminalEndsReading == TerminalSeen => (pc = "exit" \/ ENABLED Progress)

\* C8: a terminal event is final. Once done or error has been recognised, no
\* step changes the output text or the tool-call state.
C8_TerminalIsFinal ==
    [][TerminalSeen => outputText' = outputText /\ currentToolCall' = currentToolCall]_vars

\* C9: consumer abort is not an error. A cell disposed during the request
\* has aborted it; from then on nothing is decoded or rendered, the next
\* step of _callAI is its return, and neither the disposal nor any later step
\* writes the cell's source or its rendered flag.
C9_AbortIsNotAnError ==
    /\ [](cell.isDisposed /\ pc \in {"fetch", "json", "read"} => aborted)
    /\ [][cell.isDisposed =>
            /\ UNCHANGED << loopVars, delivered >>
            /\ pc' # pc => pc' = "exit"]_vars
    /\ [][cell.isDisposed' =>
            cell.source' = cell.source /\ cell.rendered' = cell.rendered]_vars

\* _callAI has returned from the loop for a cell disposed in mid-stream, with
\* bytes still unread.
C9_Witness ==
    /\ pc = "exit"
    /\ cell.isDisposed
    /\ exitPath = "disposed"
    /\ eventLog # <<>>
    /\ wire # <<>>
    /\ ~cell.rendered

\* A line that does not start with the event prefix.
NotData(rawLine) == ~StartsWith(StripCR(rawLine), Prefix)

IsData(rawLine) == ~NotData(rawLine)

\* C10: a line without the event prefix is ignored. Output text, tool-call
\* state and recognised events are those of the complete lines received that
\* start with the prefix, and the loop goes on to the lines after.
C10_NonDataLineIgnored ==
    LET data == ProcessLines(LoopInit, SelectSeq(CompleteLines, IsData), kernelId)
    IN  /\ outputText = data.outputText
        /\ currentToolCall = data.currentToolCall
        /\ eventLog = data.eventLog
        /\ Len(linesLog) = Len(CompleteLines)

\* A frame whose prefix follows a space was received, then a text frame was
\* recognised.
C10_Witness ==
    /\ sent # <<>>
    /\ sent[1] = Event("raw", <<>>, << SP >> \o Prefix \o TextFrame)
    /\ Len(linesLog) >= 2
    /\ eventLog = << [tag |-> "text", val |-> Str(<< "a" >>)] >>

\* The keys the if chain tests.
KnownKeys ==
    { << "text" >>, << "error" >>, << "done" >>, << "tool_call" >>,
      << "tool_input" >>, << "tool_result" >> }

\* A data line of well-formed JSON, an object none of whose keys is known.
UnknownFrame(rawLine) ==
    /\ IsDataLine(StripCR(rawLine))
    /\ LET p == JSONparse(Drop(StripCR(rawLine), Len(Prefix)))
       IN  /\ p.ok
           /\ p.val.t = "object"
           /\ \A i \in 1..Len(p.val.m) : p.val.m[i][1] \notin KnownKeys

KnownFrame(rawLine) == ~UnknownFrame(rawLine)

\* C11: a frame of well-formed JSON whose keys are all unknown is tolerated.
\* Output text, tool-call state, the cell's source and the recognised events
\* are those of the complete lines received with these frames left out, and
\* every line received has been iterated over, so the frames after an
\* unknown one are processed.
C11_UnknownKeysIgnored ==
    LET known == ProcessLines(LoopInit, SelectSeq(CompleteLines, KnownFrame), kernelId)
    IN  /\ outputText = known.outputText
        /\ currentToolCall = known.currentToolCall
        /\ eventLog = known.eventLog
        /\ pc = "read" => cell.source = known.source
        /\ Len(linesLog) = Len(CompleteLines)

\* The first frame received had a key "thinking" with the members of a tool
\* call, and the text frame sent after it has been rendered.
C11_Witness ==
    /\ linesLog # <<>>
    /\ UnknownFrame(linesLog[1])
    /\ IndexOf(linesLog[1], "thinking") # 0
    /\ eventLog = << [tag |-> "text", val |-> Str(<< "a" >>)] >>
    /\ ~currentToolCall.open

\* The bytes with every CR that precedes a LF taken out.
WithoutCR(b) ==
    SelectSeq([i \in 1..Len(b) |->
                  IF b[i] = CR /\ i < Len(b) /\ b[i + 1] = NL THEN SKIP ELSE b[i]],
              IsChar)

\* C12: carriage-return tolerance. The events recognised, the output text
\* and the tool-call state are those the loop gets from the same bytes with
\* LF line endings, as many lines have been iterated over, however the bytes
\* were cut into reads.
C12_CrlfSameAsLf ==
    LET lf == ConsumeChunk(LoopInit, WithoutCR(delivered), kernelId)
    IN  /\ eventLog = lf.eventLog
        /\ outputText = lf.outputText
        /\ currentToolCall = lf.currentToolCall
        /\ Len(linesLog) = Len(lf.linesLog)

\* A read has ended between the CR and the LF of the second CR LF frame:
\* the first one, whose CR and LF came in different reads or not, has been
\* recognised.
C12_Witness ==
    /\ pc = "read"
    /\ buffer # <<>>
    /\ buffer[Len(buffer)] = CR
    /\ StartsWith(buffer, Prefix)
    /\ wire # <<>>
    /\ Head(wire) = NL
    /\ eventLog # <<>>
    /\ IndexOf(delivered, CR) # 0

\* A character that stands for a variable's repr, one per name.
MarkerOf(name) ==
    IF name = << "x" >> THEN "<repr of x>"
    ELSE IF name = << "y" >> THEN "<repr of y>"
    ELSE "<repr>"

\* The entries with every value replaced by its marker.
Marked(variableValues) ==
    [i \in 1..Len(variableValues) |->
        << variableValues[i][1], << MarkerOf(variableValues[i][1]) >> >>]

\* The text with every marker replaced by the value it stands for.
RECURSIVE Unmarked(_, _)
Unmarked(text, variableValues) ==
    IF text = <<>> THEN <<>>
    ELSE LET at == {i \in 1..Len(variableValues) :
                        MarkerOf(variableValues[i][1]) = Head(text)}
         IN  (IF at = {} THEN << Head(text) >>
              ELSE variableValues[CHOOSE i \in at : TRUE][2])
             \o Unmarked(Tail(text), variableValues)

\* C13: variable substitution. The prompt passed to _callAI has, at every
\* whole-identifier occurrence of $name of a resolved variable, that
\* variable's repr as it is: it is the user's prompt, its function
\* references removed, with each such occurrence replaced by the repr.
C13_ReprAtEveryReference ==
    exec.pc = "called" =>
        exec.request.prompt =
            Unmarked(substituteVariables(removeFunctionReferences(exec.cleanPrompt),
                                         Marked(exec.variables)),
                     exec.variables)

\* The entries in the opposite iteration order.
Reversed(variableValues) ==
    [i \in 1..Len(variableValues) |-> variableValues[Len(variableValues) + 1 - i]]

\* C14: values with $ are safe in substituteVariables. Every value is in the
\* result as it was given, at each reference of its name in the text, and
\* the result is the same when the entries are iterated in the other order.
C14_ValuesVerbatimAnyOrder ==
    exec.pc = "substituted" =>
        /\ exec.result =
               Unmarked(substituteVariables(exec.cleanPrompt, Marked(exec.variables)),
                        exec.variables)
        /\ exec.result = substituteVariables(exec.cleanPrompt, Reversed(exec.variables))

\* The sources of the code cells of the model before the cell uid, in the
\* model's order.
ModelCodeBefore(nb, uid) ==
    LET at == CHOOSE k \in 1..Len(nb.cells) : nb.cells[k].uid = uid
        IsCode(c) == c.type = "code"
        code == SelectSeq(Take(nb.cells, at - 1), IsCode)
    IN  [i \in 1..Len(code) |-> code[i].source]

\* C15: context gathering walks the notebook model. The preceding code an
\* execution gathers is the source of every code cell whose model position
\* is before the active prompt cell, in order, whatever cells have a widget,
\* and the request's preceding_code is that code joined.
C15_ContextFromModel ==
    /\ [](exec.pc = "called" =>
            exec.request.preceding_code = Join(exec.precedingCode))
    /\ [][ExecuteStart /\ exec'.pc \in {"variables", "functions", "called"} =>
            exec'.precedingCode = ModelCodeBefore(notebook, ActiveCell(notebook).uid)]_vars

\* C16: the context bundle is caller-bounded. The code cells, variables and
\* functions a request carries never exceed the hard cap.
C16_ContextWithinCap ==
    exec.pc = "called" =>
        Len(exec.precedingCode) + Len(exec.request.variables)
            + Len(exec.request.functions) <= ContextCap

\* A non-OK response has arrived.
NotOk == response # NoResponse /\ ~response.ok

\* The source of a cell that shows the message of the thrown Error.
Shows(msg) == ErrorSource(<< "Error: " >> \o msg)

\* C17 as stated: the cell shows the error field whenever the JSON body has
\* one, the HTTP status otherwise.
C17_ErrorFieldWheneverPresent ==
    (NotOk /\ pc = "exit" /\ ~cell.isDisposed) =>
        LET b == response.errorBody
            hasField == /\ b.json
                        /\ b.val.t = "object"
                        /\ \E i \in 1..Len(b.val.m) : b.val.m[i][1] = << "error" >>
        IN  cell.source = Shows(IF hasField THEN ToStr(Prop(b.val, << "error" >>))
                                ELSE HttpStatus)

\* JSON bodies whose error field is a non-empty string, as values.
HasErrorText(b) ==
    /\ b.json
    /\ b.val.t = "object"
    /\ Prop(b.val, << "error" >>).t = "string"
    /\ Prop(b.val, << "error" >>).s # <<>>

\* C17: pre-stream errors are plain structured errors. After a non-OK
\* response no byte of a stream is read and no event recognised; when
\* _callAI has returned with the cell alive, the cell is rendered and shows
\* the error field of a JSON body whose error field is a non-empty text, and
\* the HTTP status for every other body (an empty error field, no error
\* field, JSON null, not JSON).
C17_PreStreamError ==
    NotOk =>
        /\ pc \in {"json", "exit"}
        /\ delivered = <<>> /\ sent = <<>> /\ eventLog = <<>> /\ linesLog = <<>>
        /\ (pc = "exit" /\ ~cell.isDisposed) =>
               /\ exitPath = "error"
               /\ cell.rendered
               /\ ~cell.hasContent
               /\ cell.source =
                      Shows(IF HasErrorText(response.errorBody)
                            THEN Prop(response.errorBody.val, << "error" >>).s
                            ELSE HttpStatus)

\* _callAI has returned for a 4xx response whose JSON body has an error
\* text, which the live cell shows.
C17_Witness ==
    /\ NotOk
    /\ pc = "exit"
    /\ ~cell.isDisposed
    /\ HasErrorText(response.errorBody)
    /\ cell.source = Shows(<< "Invalid request" >>)

\* The prompt cells of a notebook model, as positions.
PromptCells(nb) == {k \in 1..Len(nb.cells) : IsPromptCell(nb.cells[k])}

\* C18: insertPromptCell adds exactly one cell. The new cell is a prompt cell
\* directly below the cell that was active; taking it out gives the cells as
\* they were, so every other cell keeps its content, its place in the order
\* and its metadata; and the prompt cells are always as many as the
\* insertions made.
C18_InsertAddsOnePromptCell ==
    /\ [](Cardinality(PromptCells(notebook)) = notebook.inserts)
    /\ [][InsertPrompt =>
            LET a == notebook.activeCellIndex
                old == notebook.cells
                new == notebook'.cells
            IN  /\ Len(new) = Len(old) + 1
                /\ notebook'.inserts = notebook.inserts + 1
                /\ IsPromptCell(new[a + 2])
                /\ \A k \in 1..Len(old) : old[k].uid # new[a + 2].uid
                /\ new[a + 1] = old[a + 1]
                /\ RemoveAt(new, a + 1) = old]_vars

\* Two insertions, the second between the first cell and the prompt cell
\* inserted first.
C18_Witness ==
    /\ notebook.inserts = 2
    /\ Len(notebook.cells) = 3
    /\ PromptCells(notebook) = {2, 3}
    /\ notebook.cells[2].uid > notebook.cells[3].uid

\* C19: the cell insertPromptCell leaves active is in the notebook model,
\* of type markdown, with the source '**AI Prompt:** ' and the metadata
\* isPromptCell = true and a defined model; prompt cells keep type and
\* metadata whatever happens next.
C19_PromptCellAsInserted ==
    /\ [](\A k \in PromptCells(notebook) :
              /\ notebook.cells[k].type = "markdown"
              /\ notebook.cells[k].model = DefaultModel)
    /\ [][InsertPrompt =>
            LET at == notebook'.activeCellIndex + 1
                left == notebook'.cells[at]
            IN  /\ at \in 1..Len(notebook'.cells)
                /\ left.uid = notebook.nextUid
                /\ left.isPromptCell = TRUE
                /\ left.model # "undefined"
                /\ left.type = "markdown"
                /\ left.source = PromptSource
                /\ HasClass(notebook', left.uid, PROMPT_CELL_CLASS)
                /\ notebook'.mode = "edit"]_vars

\* A prompt cell just inserted is the active cell, in edit mode.
C19_Witness ==
    /\ notebook.inserts = 1
    /\ notebook.mode = "edit"
    /\ ActiveCell(notebook).isPromptCell
    /\ ActiveCell(notebook).type = "markdown"
    /\ ActiveCell(notebook).source = PromptSource

ClassedWidgets(nb) == { c[1] : c \in { d \in nb.classes : d[2] = PROMPT_CELL_CLASS } }

PromptWidgets(nb) ==
    { nb.cells[k].uid : k \in { j \in PromptCells(nb) : nb.cells[j].uid \in nb.rendered } }

\* C21: the styling invariant. A widget has the class ai-jup-prompt-cell only
\* if its cell is a prompt cell, and every step that runs stylePromptCells
\* leaves every prompt cell that has a widget with the class.
C21_StylingInvariant ==
    /\ [](ClassedWidgets(notebook) \subseteq PromptWidgets(notebook))
    /\ [][(StyleFrame \/ InsertPrompt \/ DeleteActive
             \/ \E i \in 0..(MaxCells - 1) : SelectCell(i)) =>
            PromptWidgets(notebook') \subseteq ClassedWidgets(notebook')]_vars

\* C22: once the plugin is activated both commands are registered, and an
\* execution of either while no notebook is the current widget changes
\* nothing: no cell is inserted, no request made.
C22_CommandsNeedNotebook ==
    /\ [](app.activated => {insertPromptCommand, runPromptCommand} \subseteq app.commands)
    /\ [][(app.currentWidget = "null" /\ app'.log # app.log) =>
            UNCHANGED << nbVars, callVars >>]_vars

\* Both commands have been executed with no current notebook, and also with
\* the notebook current, where a prompt cell was inserted and run.
C22_Witness ==
    /\ \E i \in 1..Len(app.log) : app.log[i] = << insertPromptCommand, "null" >>
    /\ \E i \in 1..Len(app.log) : app.log[i] = << runPromptCommand, "null" >>
    /\ \E i \in 1..Len(app.log) : app.log[i] = << insertPromptCommand, "panel" >>
    /\ notebook.inserts = 1

\* C23: at most one request is in flight per output cell. A call of _callAI
\* on a cell whose flag is set returns at once: it issues no fetch, writes
\* nothing to the cell, leaves the flag set and the owner's request as it is.
C23_OneRequestPerCell ==
    /\ [](calls.inFlight <= 1)
    /\ [][calls'.refused # calls.refused =>
            /\ cell.activeRequest
            /\ calls'.inFlight = calls.inFlight
            /\ UNCHANGED << pc, cell, listener, aborted, response, loopVars,
                            netVars, exitPath >>]_vars

\* Calls were refused while the owner's request streamed, and the owner has
\* finalized its output.
C23_Witness ==
    /\ calls.refused = MaxRefused
    /\ pc = "exit"
    /\ exitPath = "finalized"
    /\ cell.content = << "a" >>
    /\ ~cell.activeRequest

\* A request for the cell is in flight: _callAI has passed the guard and has
\* not returned.
InFlight == pc \in {"fetch", "json", "read"}

\* C24: cleanup on every exit path. Once _callAI has returned, the dispose
\* listener is disconnected and a live cell has no flag; while it runs the
\* listener is connected; so on a live cell the flag is set exactly when a
\* request for it is in flight.
C24_CleanupOnEveryExit ==
    /\ pc = "exit" => (~listener /\ (~cell.isDisposed => ~cell.activeRequest))
    /\ InFlight => (listener /\ calls.inFlight = 1)
    /\ ~cell.isDisposed => (cell.activeRequest <=> InFlight)
    /\ pc = "exit" => exitPath \in {"finalized", "disposed", "abort", "error"}

\* A read has failed mid-stream with the cell alive: the flag is gone and
\* the listener disconnected.
C24_Witness ==
    /\ pc = "exit"
    /\ exitPath = "error"
    /\ delivered # <<>>
    /\ ~cell.isDisposed
    /\ ~cell.activeRequest
    /\ ~listener

\* C25: no write after disposal. No step changes the source, the rendered
\* flag, the metadata or the buttons of a cell that is disposed.
C25_NoWriteAfterDisposal ==
    [][cell.isDisposed => cell' = cell]_vars

\* The cell was disposed while its stream was being read, after output had
\* been written to it, and _callAI has returned.
C25_Witness ==
    /\ pc = "exit"
    /\ cell.isDisposed
    /\ outputText # <<>>
    /\ cell.source = outputText
    /\ ~cell.rendered
    /\ cell.buttons = 0
    /\ cell.activeRequest

\* The piece an event adds to the rendering: the delta, the notice of an
\* error or of a tool call, the result of a tool.
PieceOf(e) ==
    CASE e.tag = "text" -> e.v
      [] e.tag = "error" -> << NL, NL, "**Error:**", SP >> \o e.v \o << NL >>
      [] e.tag = "tool_call" -> << NL, NL, "*Calling tool: " >> \o e.v \o << "...*", NL >>
      [] e.tag = "tool_result" -> << NL, "[tool result: " >> \o e.v \o << "]", NL >>
      [] OTHER -> <<>>

RECURSIVE Pieces(_)
Pieces(events) ==
    IF events = <<>> THEN <<>> ELSE PieceOf(Head(events)) \o Pieces(Tail(events))

\* C26: emission order is preserved in the rendering. While the stream is
\* read, the cell's source is the pieces of the events received so far, in
\* the order the server sent them, and a read only adds to the end of it.
C26_RenderingInEmissionOrder ==
    /\ [](pc = "read" /\ eventLog # <<>> =>
              /\ cell.source = Pieces(ReceivedEvents)
              /\ cell.source = outputText)
    /\ [][(pc = "read" /\ pc' = "read" /\ eventLog # <<>>) =>
              StartsWith(cell'.source, cell.source)]_vars

\* Three pieces of different kinds are rendered, an error before a text.
C26_Witness ==
    /\ pc = "read"
    /\ Len(eventLog) = 3
    /\ eventLog[1].tag = "tool_call"
    /\ eventLog[2].tag = "error"
    /\ eventLog[3].tag = "text"
    /\ cell.source = PieceOf(sent[1]) \o PieceOf(sent[2]) \o PieceOf(sent[3])

\* C27: stream end by connection close. When the reader reports the end of
\* the stream with the cell alive, the cell is rendered, the whole output
\* text of the stream is stored as its content and it has one button
\* container; content and buttons are written by that step only, which
\* _callAI takes once.
C27_FinalizedOnClose ==
    /\ [](exitPath = "finalized" =>
              /\ pc = "exit" /\ closed /\ wire = <<>>
              /\ cell.rendered
              /\ cell.hasContent
              /\ cell.content = outputText
              /\ cell.content = OneRead.outputText
              /\ cell.buttons = 1)
    /\ [](cell.buttons <= 1)
    /\ [][(cell'.hasContent # cell.hasContent \/ cell'.content # cell.content
             \/ cell'.buttons # cell.buttons) =>
            /\ pc = "read" /\ pc' = "exit"
            /\ closed /\ wire = <<>>
            /\ ~cell.isDisposed
            /\ exitPath' = "finalized"]_vars

\* The server has closed a stream of a text and a tool call, all of it read,
\* and the output is finalized.
C27_Witness ==
    /\ exitPath = "finalized"
    /\ Len(eventLog) = 2
    /\ cell.rendered
    /\ cell.content = outputText
    /\ cell.content # <<>>
    /\ cell.buttons = 1

\* The text delivered after the last newline, and what the loop makes of the
\* complete lines alone.
TrailingPartial == DeliveredLines[Len(DeliveredLines)]

OfCompleteLines == ProcessLines(LoopInit, CompleteLines, kernelId)

\* C28: a trailing partial line is never an event. When the stream has
\* ended, the lines processed are the lines that had their newline; the
\* text after the last newline is still in the buffer, and events, output
\* and stored content are those of the complete lines alone. The step that
\* ends the stream processes nothing.
C28_TrailingPartialDiscarded ==
    /\ [](exitPath = "finalized" =>
              /\ buffer = TrailingPartial
              /\ linesLog = CompleteLines
              /\ eventLog = OfCompleteLines.eventLog
              /\ outputText = OfCompleteLines.outputText
              /\ cell.content = OfCompleteLines.outputText)
    /\ [][(pc = "read" /\ pc' = "exit") =>
              UNCHANGED << eventLog, linesLog, outputText, buffer >>]_vars

\* The connection closed after a text event and a whole text frame without
\* its newline: only the first is in the output.
C28_Witness ==
    /\ exitPath = "finalized"
    /\ buffer = FrameLine(Event("text", <<>>, << "b" >>))
    /\ Len(eventLog) = 1
    /\ cell.content = << "a" >>

\* The notice of the claim, and the output of a sequence of events in which
\* a done adds the notice when a tool call is open and there is no kernel
\* id, and nothing otherwise.  open: a tool_call was received and no
\* tool_result after it.
KernelNotice == << NL, "**Tool Error:**", SP, "Tools require an active kernel.", NL >>

RECURSIVE WithDone(_, _, _)
WithDone(events, open, kid) ==
    IF events = <<>> THEN <<>>
    ELSE LET e == Head(events)
             piece == IF e.tag # "done" THEN PieceOf(e)
                      ELSE IF open /\ kid = "undefined" THEN KernelNotice
                      ELSE <<>>
             next == IF e.tag = "tool_call" THEN TRUE
                     ELSE IF e.tag = "tool_result" THEN FALSE
                     ELSE open
         IN  piece \o WithDone(Tail(events), next, kid)

\* C29: missing execution session. A done event adds the notice `Tool
\* Error: Tools require an active kernel.` to the output when a tool call is
\* open and the request has no kernel id, and leaves the output text as it
\* is in every other case.
C29_DoneWithoutKernel ==
    pc \in {"read", "exit"} /\ response.ok /\ response.body =>
        outputText = WithDone(ReceivedEvents, FALSE, kernelId)

\* Without a kernel id, a done has arrived while the tool call was open.
C29_Witness ==
    /\ kernelId = "undefined"
    /\ pc = "read"
    /\ Len(eventLog) = 2
    /\ eventLog[1].tag = "tool_call"
    /\ eventLog[2].tag = "done"
    /\ outputText = PieceOf(sent[1]) \o KernelNotice
    /\ cell.source = outputText

\* _callAI has returned because a read of the stream failed, the cell alive.
ReadFailed ==
    /\ pc = "exit"
    /\ exitPath = "error"
    /\ response.ok /\ response.body
    /\ ~cell.isDisposed

\* C30: mid-stream transport failure. After a read has failed for a reason
\* other than abort, with the cell alive, the cell's source is the `**Error:**
\* Failed to connect to AI backend.` message with the error, whatever was
\* streamed before; the cell is rendered, has no stored content and no
\* convert button, and its active-request flag is cleared.
C30_MidStreamFailure ==
    ReadFailed =>
        /\ cell.source = << "**Error:** Failed to connect to AI backend.", NL, NL,
                            "TypeError: network error" >>
        /\ cell.rendered
        /\ ~cell.hasContent
        /\ cell.content = <<>>
        /\ cell.buttons = 0
        /\ ~cell.activeRequest
        /\ ~listener

\* A read failed after a text and a tool-call notice had been streamed to
\* the cell.
C30_Witness ==
    /\ ReadFailed
    /\ Len(eventLog) = 2
    /\ outputText # <<>>
    /\ cell.source # outputText
    /\ cell.rendered

\* The references of a text told from the text alone: a sigil followed by a
\* letter or an underscore, for a function not directly after a word
\* character; its name runs to the last word character.
ReferenceAt(text, sigil, apart) ==
    { i \in 1..(Len(text) - 1) :
        /\ text[i] = sigil
        /\ text[i + 1] \in {"x", "y", "_"}
        /\ apart => (i = 1 \/ text[i - 1] \notin {"x", "y", "2", "_"}) }

NameAt(text, i) ==
    LET ends == { j \in (i + 1)..Len(text) :
                    /\ \A k \in (i + 1)..j : text[k] \in {"x", "y", "2", "_"}
                    /\ (j = Len(text) \/ text[j + 1] \notin {"x", "y", "2", "_"}) }
    IN  SubSeq(text, i + 1, CHOOSE j \in ends : TRUE)

\* The position of the first reference of a name.
FirstAt(text, refs, name) ==
    CHOOSE i \in refs : /\ NameAt(text, i) = name
                        /\ \A j \in refs : NameAt(text, j) = name => i <= j

\* names lists the names referred to at refs, each once, in the order of
\* their first reference.
ListsReferences(text, refs, names) ==
    /\ { names[k] : k \in 1..Len(names) } = { NameAt(text, i) : i \in refs }
    /\ \A k, l \in 1..Len(names) :
          k < l => FirstAt(text, refs, names[k]) < FirstAt(text, refs, names[l])

\* C36: parsePrompt returns every $name as a variable and every &name that
\* does not directly follow a word character as a function, each list
\* without duplicates and in the order of first occurrence; the & of a&b
\* gives no function.
C36_ParsePromptReferences ==
    exec.pc = "parsed" =>
        /\ ListsReferences(exec.cleanPrompt, ReferenceAt(exec.cleanPrompt, "$", FALSE),
                           exec.variables)
        /\ ListsReferences(exec.cleanPrompt, ReferenceAt(exec.cleanPrompt, "&", TRUE),
                           exec.functions)
        /\ (\A i \in 1..Len(exec.cleanPrompt) :
                exec.cleanPrompt[i] = "&"
                    => i > 1 /\ exec.cleanPrompt[i - 1] \in {"x", "y", "2", "_"})
              => exec.functions = <<>>

\* $y$x$y: y is referred to twice, before and after x.
C36_Witness ==
    /\ exec.pc = "parsed"
    /\ exec.cleanPrompt = << "$", "y", "$", "x", "$", "y" >>
    /\ exec.variables = << << "y" >>, << "x" >> >>
    /\ exec.functions = <<>>

\* The sigil and a name at index i of a text, whatever precedes them, and
\* the name's characters after a sigil at index i, whatever follows them.
TokensOf(text, sigil, name) ==
    { i \in ReferenceAt(text, sigil, FALSE) : NameAt(text, i) = name }

LiterallyAt(text, sigil, name) ==
    { i \in 1..(Len(text) - Len(name)) :
        /\ text[i] = sigil
        /\ SubSeq(text, i + 1, i + Len(name)) = name }

\* C37: a $name the connector does not resolve is not in context.variables
\* and stays literally in the prompt that is sent; a function the connector
\* does not resolve is not in context.functions, and the &name references
\* are gone from the prompt that is sent whether the function is resolved or
\* not (what is left of &name is what was part of a word).
C37_UnresolvedReferences ==
    exec.pc = "called" =>
        LET text == exec.cleanPrompt
            req == exec.request
            Defined(name) == \E v \in kernel.variables : v[1] = name
        IN  /\ \A i \in ReferenceAt(text, "$", FALSE) :
                  LET name == NameAt(text, i)
                  IN  ~Defined(name) =>
                          /\ \A k \in 1..Len(req.variables) : req.variables[k][1] # name
                          /\ Cardinality(LiterallyAt(req.prompt, "$", name))
                                >= Cardinality(TokensOf(text, "$", name))
            /\ \A i \in ReferenceAt(text, "&", TRUE) :
                  LET name == NameAt(text, i)
                      refs == { j \in ReferenceAt(text, "&", TRUE) : NameAt(text, j) = name }
                  IN  /\ name \notin kernel.functions =>
                             \A k \in 1..Len(req.functions) : req.functions[k] # name
                      /\ Cardinality(TokensOf(req.prompt, "&", name))
                            <= Cardinality(TokensOf(text, "&", name)) - Cardinality(refs)

\* &x$y with neither x nor y defined: nothing in the context, $y is sent.
C37_Witness ==
    /\ exec.pc = "called"
    /\ exec.cleanPrompt = << "&", "x", "$", "y" >>
    /\ kernel = NoKernel
    /\ exec.request.variables = <<>>
    /\ exec.request.functions = <<>>
    /\ exec.request.prompt = << "$", "y" >>

\* The place of a cell in the model, and the number of output cells that
\* follow place p without a gap.
PlaceOf(nb, uid) == CHOOSE k \in 1..Len(nb.cells) : nb.cells[k].uid = uid

OutputRun(nb, p) ==
    Cardinality({ k \in (p + 1)..Len(nb.cells) :
                    \A j \in (p + 1)..k :
                        << nb.cells[j].uid, PROMPT_OUTPUT_CLASS >> \in nb.classes })

\* C31: every execution gets a new output cell: the notebook has one cell
\* more, the cells it had are as they were and in their order, and the new
\* cell, with a new id, the loading text and the output class, comes directly
\* after the prompt cell and the output cells that already followed it.
C31_NewOutputCellEachExecution ==
    [][ (exec'.pc = "called" /\ exec'.outputUid # exec.outputUid) =>
            LET p == PlaceOf(notebook, exec'.promptUid)
                run == OutputRun(notebook, p)
                new == notebook'.cells[p + run + 1]
            IN  /\ Len(notebook'.cells) = Len(notebook.cells) + 1
                /\ new.uid = exec'.outputUid
                /\ \A k \in 1..Len(notebook.cells) : notebook.cells[k].uid # new.uid
                /\ notebook'.cells = InsertAt(notebook.cells, p + run, new)
                /\ new.source = LoadingSource
                /\ new.type = "markdown"
                /\ << new.uid, PROMPT_OUTPUT_CLASS >> \in notebook'.classes
      ]_vars

\* The prompt cell has been executed twice: the second output cell follows
\* the first.
C31_Witness ==
    /\ exec.pc = "called"
    /\ exec.promptUid = 1
    /\ exec.outputUid = 3
    /\ [k \in 1..Len(notebook.cells) |-> notebook.cells[k].uid] = << 1, 2, 3 >>
    /\ {<< 2, PROMPT_OUTPUT_CLASS >>, << 3, PROMPT_OUTPUT_CLASS >>} \subseteq notebook.classes

\* C33: whatever the user inserts, deletes or selects while executePromptCell
\* awaits the connector, an output cell is created only while the prompt cell
\* is still in the notebook, and it comes after the prompt cell with nothing
\* but output cells between the two.
C33_PlacementSurvivesEdits ==
    [][ (exec'.pc = "called" /\ exec' # exec) =>
            /\ \E k \in 1..Len(notebook.cells) : notebook.cells[k].uid = exec'.promptUid
            /\ \E p, q \in 1..Len(notebook'.cells) :
                  /\ notebook'.cells[p].uid = exec'.promptUid
                  /\ notebook'.cells[q].uid = exec'.outputUid
                  /\ p < q
                  /\ \A j \in (p + 1)..q :
                        << notebook'.cells[j].uid, PROMPT_OUTPUT_CLASS >> \in notebook'.classes
      ]_vars

\* C34: executePromptCell called with no active cell, with an active cell
\* that is not marked as a prompt cell, or for a panel without a registered
\* connector returns at once: no output cell, no question to the kernel, no
\* request to the backend, and the notebook as it was.
C34_ExecuteGuards ==
    [][ ( /\ exec' # exec
          /\ exec.pc \notin {"variables", "functions"}
          /\ \/ ActiveCell(notebook) = NoCell
             \/ ~ActiveCell(notebook).isPromptCell
             \/ ~notebook.connector )
        => /\ exec'.pc = "returned"
           /\ exec'.todo = <<>>
           /\ exec'.outputUid = 0
           /\ exec'.request = NoRequest
           /\ notebook' = notebook
           /\ UNCHANGED << kernel, callVars >>
      ]_vars

\* run-prompt on a prompt cell before setupNotebook has run for the panel.
C34_Witness ==
    /\ exec.pc = "returned"
    /\ exec.result = << "No kernel connector found" >>
    /\ ActiveCell(notebook).isPromptCell
    /\ ~notebook.connector
    /\ ~notebook.isDisposed

\* The connector map has the panel's entry exactly when setupNotebook has run
\* and the panel is not disposed; a disposed panel has no entry and no
\* handler connected.
RegistryInvariant(nb) ==
    /\ nb.connector <=> (nb.setupPc = "done" /\ ~nb.isDisposed)
    /\ nb.isDisposed => (~nb.connector /\ nb.listeners = {})

\* C35: the connector map has an entry for a panel if and only if
\* setupNotebook ran for it and it has not been disposed since; neither
\* doSetup nor the frame callback sets up a panel that is disposed; disposal
\* removes the entry and disconnects the handlers of activeCellChanged and
\* cells.changed.
C35_ConnectorRegistry ==
    [][ /\ RegistryInvariant(notebook)
        /\ RegistryInvariant(notebook')
        /\ notebook.isDisposed =>
              /\ notebook'.buttons = notebook.buttons
              /\ notebook'.connector = notebook.connector
              /\ notebook'.listeners = notebook.listeners
              /\ notebook'.classes = notebook.classes
              /\ notebook'.setupPc \in {notebook.setupPc, "skipped", "waiting"}
        /\ (notebook'.isDisposed /\ ~notebook.isDisposed) =>
              (~notebook'.connector /\ notebook'.listeners = {})
      ]_vars

\* The panel was closed between doSetup and the frame: the callback has
\* returned without setting it up.
C35_Witness ==
    /\ notebook.isDisposed
    /\ notebook.setupPc = "skipped"
    /\ notebook.buttons = 1
    /\ ~notebook.connector

\* What a call that has read these events, and no others, has rendered.
RECURSIVE RenderedFrom(_, _, _)
RenderedFrom(c, events, kid) ==
    IF events = <<>> THEN c
    ELSE RenderedFrom(ConsumeChunk(c, Encode(Head(events)), kid), Tail(events), kid)

SourceFrom(events, kid) ==
    LET c == RenderedFrom(LoopInit, events, kid)
    IN  IF c.outputText = <<>> THEN LoadingSource ELSE c.outputText

\* C32: calls of executePromptCell that overlap do not interfere: each call
\* that has come to its output cell has one of its own, which is no other
\* call's output cell and no prompt cell, and that cell holds what this call
\* has rendered from the events it has read itself; the prompt cells keep
\* their sources.
C32_ConcurrentExecutions ==
    /\ \A r \in 1..Len(runs) :
          runs[r].ex.pc = "called" =>
              LET out == runs[r].ex.outputUid
              IN  /\ \E k \in 1..Len(notebook.cells) :
                        /\ notebook.cells[k].uid = out
                        /\ ~notebook.cells[k].isPromptCell
                        /\ << out, PROMPT_OUTPUT_CLASS >> \in notebook.classes
                        /\ notebook.cells[k].source = SourceFrom(runs[r].received, kernelId)
                  /\ \A s \in 1..Len(runs) :
                        (s # r /\ runs[s].ex.pc = "called") => runs[s].ex.outputUid # out
    /\ \A k \in 1..Len(notebook.cells) :
          notebook.cells[k].isPromptCell => Head(notebook.cells[k].source) = "**AI Prompt:**"

\* The prompt was run again while its first run awaited the connector; the
\* second run got its output cell first, and each has streamed its own text.
C32_Witness ==
    /\ Len(runs) = 2
    /\ runs[1].ex.pc = "called"
    /\ runs[2].ex.pc = "called"
    /\ runs[1].ex.promptUid = runs[2].ex.promptUid
    /\ runs[2].ex.outputUid < runs[1].ex.outputUid
    /\ runs[1].received = << Event("text", <<>>, << "a" >>) >>
    /\ runs[2].received = << Event("text", <<>>, << "b" >>), Event("tool_call", T1, << "f" >>) >>

====
